---- MODULE Spec2Model ----
(***************************************************************************)
(* Redfin acquisition pipeline: query partitioner, ledger (downloads.log), *)
(* the per-query loop of downloadRedfinData and the capture strategies of  *)
(* simpleDownload.                                                         *)
(*                                                                         *)
(* Text is modelled as a sequence of tokens.  Labels are sequences of      *)
(* one-character tokens; JSON punctuation, timestamps and URLs are opaque   *)
(* tokens that contain no label character, so substring search over the    *)
(* token sequence agrees with String.includes over the file text.          *)
(***************************************************************************)
EXTENDS Integers, Sequences, FiniteSets, TLC

\* ------------------------------------------------------------------ bounds
MaxRuns == 2
MaxLedger == 2
MaxUrls == 2
MaxRows == 3
MaxLen == 4

\* --------------------------------------------------------------- constants
maxAttempts == 3
NullMax == -1
\* page.waitForTimeout arguments, in milliseconds
retryWait == 5000
delayAfterLoginSuccess == 5000
delayAfterSuccess == 15000
delayAfterError == 10000

VARIABLES
  sizeRanges, priceRanges,
  ledger, run, pc,
  sIdx, pIdx, applicablePriceRanges,
  attempts, resultCount, searchCount, viaLogin, loginCalls, filename,
  targetSaved, thrown,
  totalDownloads, successfulDownloads, skippedDownloads,
  clock, danglingDownloadPromise, waited,
  queries, skipChecks,
  sdPc, interceptedCsvData, downloadEvent, downloadSuccess, handlersAttached,
  browserOpen, downloadUrls, urlIdx, sdLog, strategies, sdCalls,
  lgPc, lgReturn, lgTrace, lgSnapshots, lgStillVisible, typed,
  processEnv,
  csvPc, csvFile, unread, records, marketMatrix,
  acresIn, arrayIn, percentileIn, sizeCategoryOut, medianOut,
  percentileOut,
  probeChain, probeOutcome, probeResult

vars == << sizeRanges, priceRanges, ledger, run, pc, sIdx, pIdx,
           applicablePriceRanges, attempts, resultCount, searchCount, viaLogin,
           loginCalls, filename, targetSaved,
           thrown, totalDownloads, successfulDownloads, skippedDownloads,
           clock, danglingDownloadPromise, waited, queries, skipChecks,
           sdPc, interceptedCsvData, downloadEvent, downloadSuccess,
           handlersAttached, browserOpen, downloadUrls, urlIdx, sdLog,
           strategies, sdCalls,
           lgPc, lgReturn, lgTrace, lgSnapshots, lgStillVisible, typed,
           processEnv,
           csvPc, csvFile, unread, records, marketMatrix,
           acresIn, arrayIn, percentileIn, sizeCategoryOut, medianOut,
           percentileOut,
           probeChain, probeOutcome, probeResult >>

\* state of the simpleDownload script
simpleVars == << sdPc, interceptedCsvData, downloadEvent, downloadSuccess,
                 handlersAttached, browserOpen, downloadUrls, urlIdx, sdLog,
                 strategies, sdCalls >>

\* state of the CSV processing script and of its functions applied alone
csvVars == << csvPc, csvFile, unread, records, marketMatrix,
             acresIn, arrayIn, percentileIn, sizeCategoryOut, medianOut,
             percentileOut,
             probeChain, probeOutcome, probeResult >>

\* state of one call of handleRedfinLogin, and the environment of the process
loginVars == << lgPc, lgReturn, lgTrace, lgSnapshots, lgStillVisible, typed,
               processEnv >>

\* ------------------------------------------------------------ text helpers
\* String.prototype.includes over token sequences
Includes(hay, needle) ==
  \E i \in 0..(Len(hay) - Len(needle)) :
     \A j \in 1..Len(needle) : hay[i + j] = needle[j]

\* characters kept by /[^a-zA-Z0-9.-]/g
SafeChars ==
  {"0","1","2","3","4","5","6","7","8","9",".","-",
   "a","b","c","d","e","f","g","h","i","j","k","l","m",
   "n","o","p","q","r","s","t","u","v","w","x","y","z",
   "A","B","C","D","E","F","G","H","I","J","K","L","M",
   "N","O","P","Q","R","S","T","U","V","W","X","Y","Z"}

\* label.replace(/[^a-zA-Z0-9.-]/g, '_')
SafeLabel(label) ==
  [i \in 1..Len(label) |-> IF label[i] \in SafeChars THEN label[i] ELSE "_"]

\* Date.now() / new Date().toISOString(): one opaque token per instant
Stamp(t) == << ToString(t) >>

\* `${zip}_${safeSizeLabel}_${safePriceLabel}_${ts}.csv`
createSafeFilename(zip, sizeRange, priceRange, ts) ==
  zip \o <<"_">> \o SafeLabel(sizeRange.label) \o <<"_">>
      \o SafeLabel(priceRange.label) \o <<"_">> \o Stamp(ts) \o <<".csv">>

\* ------------------------------------------------------------------ numbers
\* JavaScript numbers of the CSV processing as exact rationals n/d in lowest
\* terms with d > 0, and NaN
NaN == [nan |-> TRUE, n |-> 0, d |-> 1]

Abs(i) == IF i < 0 THEN -i ELSE i

RECURSIVE GCD(_, _)
GCD(a, b) == IF b = 0 THEN a ELSE GCD(b, a % b)

Rat(n, d) ==
  LET g == GCD(Abs(n), Abs(d))
      s == IF d < 0 THEN -1 ELSE 1
  IN  [nan |-> FALSE, n |-> s * (n \div g), d |-> s * (d \div g)]

Whole(i) == Rat(i, 1)

\* numerators of a and b over their least common denominator
OnCommon(a, b) ==
  LET l == (a.d \div GCD(a.d, b.d)) * b.d
  IN  [a |-> a.n * (l \div a.d), b |-> b.n * (l \div b.d), d |-> l]

\* a + b, a - b, a * b, a / b; an operation on NaN gives NaN
Plus(a, b) ==
  IF a.nan \/ b.nan THEN NaN
  ELSE LET c == OnCommon(a, b) IN Rat(c.a + c.b, c.d)

Minus(a, b) ==
  IF a.nan \/ b.nan THEN NaN
  ELSE LET c == OnCommon(a, b) IN Rat(c.a - c.b, c.d)

Times(a, b) == IF a.nan \/ b.nan THEN NaN ELSE Rat(a.n * b.n, a.d * b.d)

\* 0 / 0 is NaN; the divisions of this model have no other zero divisor
Over(a, b) ==
  IF a.nan \/ b.nan \/ b.n = 0 THEN NaN ELSE Rat(a.n * b.d, a.d * b.n)

\* a <= b and a < b; a comparison with NaN is false
Leq(a, b) ==
  ~a.nan /\ ~b.nan /\ LET c == OnCommon(a, b) IN c.a <= c.b

Less(a, b) ==
  ~a.nan /\ ~b.nan /\ LET c == OnCommon(a, b) IN c.a < c.b

\* Math.floor, Math.ceil of a number that is not NaN
Floor(a) == a.n \div a.d

Ceil(a) == -((-a.n) \div a.d)

\* !x for a number: true of 0 and of NaN
Falsy(x) == x.nan \/ x.n = 0

RECURSIVE Pow10(_)
Pow10(k) == IF k = 0 THEN 1 ELSE 10 * Pow10(k - 1)

\* decimal text as a sequence of characters
DigitChars == << "0", "1", "2", "3", "4", "5", "6", "7", "8", "9" >>

IsDigit(c) == \E i \in DOMAIN DigitChars : DigitChars[i] = c

DigitValue(c) == (CHOOSE i \in DOMAIN DigitChars : DigitChars[i] = c) - 1

\* number of digit characters of s from position i on
RECURSIVE DigitRun(_, _)
DigitRun(s, i) ==
  IF i <= Len(s) /\ IsDigit(s[i]) THEN 1 + DigitRun(s, i + 1) ELSE 0

\* number of blanks of s from position i on
RECURSIVE BlankRun(_, _)
BlankRun(s, i) ==
  IF i <= Len(s) /\ s[i] = " " THEN 1 + BlankRun(s, i + 1) ELSE 0

RECURSIVE DigitsValue(_)
DigitsValue(ds) ==
  IF ds = <<>> THEN 0
  ELSE 10 * DigitsValue(SubSeq(ds, 1, Len(ds) - 1)) + DigitValue(ds[Len(ds)])

\* the decimal digits of a natural number, at least width of them
RECURSIVE DigitsOf(_, _)
DigitsOf(i, width) ==
  IF i < 10 /\ width <= 1 THEN << DigitChars[i + 1] >>
  ELSE DigitsOf(i \div 10, width - 1) \o << DigitChars[(i % 10) + 1] >>

\* parseFloat(text): leading blanks, an optional sign, the longest prefix
\* digits[.digits] or .digits; NaN when that prefix has no digit. Exponents
\* and "Infinity" do not occur in the texts of this model.
parseFloat(s) ==
  LET start == 1 + BlankRun(s, 1)
      signed == start <= Len(s) /\ s[start] \in {"-", "+"}
      neg == signed /\ s[start] = "-"
      i0 == IF signed THEN start + 1 ELSE start
      ni == DigitRun(s, i0)
      dot == i0 + ni <= Len(s) /\ s[i0 + ni] = "."
      nf == IF dot THEN DigitRun(s, i0 + ni + 1) ELSE 0
      ip == DigitsValue(SubSeq(s, i0, i0 + ni - 1))
      fp == DigitsValue(SubSeq(s, i0 + ni + 1, i0 + ni + nf))
      mag == ip * Pow10(nf) + fp
  IN  IF ni + nf = 0 THEN NaN
      ELSE Rat(IF neg THEN -mag ELSE mag, Pow10(nf))

\* Number.prototype.toFixed(digits) of a number that is not NaN and below
\* 1e21: the integer n with n / 10^digits nearest to |x| (the larger n on a
\* tie), written with the decimal point, "-" in front when x < 0
toFixed(x, digits) ==
  LET mag == Abs(x.n)
      n == (2 * mag * Pow10(digits) + x.d) \div (2 * x.d)
      ds == DigitsOf(n, digits + 1)
      text == IF digits = 0 THEN ds
              ELSE SubSeq(ds, 1, Len(ds) - digits) \o << "." >> \o
                   SubSeq(ds, Len(ds) - digits + 1, Len(ds))
  IN  IF x.n < 0 THEN << "-" >> \o text ELSE text

\* ------------------------------------------------------------------ config
county == << "Okaloosa" >>

\* size ranges of filters.json: maxPrice 0 stands for "not declared" (the code
\* tests its truthiness); a price range without upper limit has max null
SubAcre == [label |-> <<"1">>,     maxPrice |-> 1]
Acres3  == [label |-> <<"3">>,     maxPrice |-> 0]
Acres5p == [label |-> <<"5","+">>, maxPrice |-> 0]

Upto1   == [label |-> <<"0","-","1">>,     min |-> 0, max |-> 1]
Upto10  == [label |-> <<"0","-","1","0">>, min |-> 0, max |-> 10]
Above9  == [label |-> <<"9","+">>,         min |-> 9, max |-> NullMax]

\* the configurations the runs are checked on
Configs ==
  { [sizeRanges |-> <<Acres5p>>,          priceRanges |-> <<Upto1>>],
    [sizeRanges |-> <<Acres3>>,           priceRanges |-> <<Upto10, Upto1>>],
    [sizeRanges |-> <<SubAcre, Acres3>>,  priceRanges |-> <<Upto10>>],
    [sizeRanges |-> <<SubAcre>>,          priceRanges |-> <<Upto1, Above9>>],
    [sizeRanges |-> <<SubAcre, Acres5p>>, priceRanges |-> <<Upto1, Upto10>>] }

\* ------------------------------------------------------------- partitioner
getPriceRangesForSize(sizeRange, prices) ==
  IF sizeRange.maxPrice # 0
  THEN SelectSeq(prices,
         LAMBDA price : price.max = NullMax \/ price.max <= sizeRange.maxPrice)
  ELSE prices

\* ------------------------------------------------------------------ ledger
\* one line of downloads.log: JSON.stringify({timestamp, ...downloadInfo})
\* absent fields are <<>>
Entry(ts, sizeLabel, priceLabel, status, fname, error) ==
  [timestamp |-> ts, county |-> county, sizeRange |-> sizeLabel,
   priceRange |-> priceLabel, status |-> status, filename |-> fname,
   error |-> error]

JsonLine(e) ==
  <<"{timestamp:">> \o Stamp(e.timestamp)
  \o <<",county:">> \o e.county
  \o <<",sizeRange:">> \o e.sizeRange
  \o <<",priceRange:">> \o e.priceRange
  \o <<",status:", e.status>>
  \o (IF e.filename = <<>> THEN <<>> ELSE <<",filename:">> \o e.filename)
  \o (IF e.error = <<>> THEN <<>> ELSE <<",error:">> \o e.error)
  \o <<",url:", "searchUrl", "}", "\n">>

RECURSIVE FileText(_)
FileText(entries) ==
  IF entries = <<>> THEN <<>>
  ELSE FileText(SubSeq(entries, 1, Len(entries) - 1))
         \o JsonLine(entries[Len(entries)])

\* variant: the line replaces the file (writeFileSync) instead of being appended
logDownload_Overwrite(log, e) == << e >>

\* fs.appendFileSync(logFile, logLine)
logDownload(log, e) == Append(log, e)

\* logContent.includes(`${zip}_${sizeRange.label}_${priceRange.label}`)
\* (a missing file reads as no entries)
isAlreadyDownloaded(log, zip, sizeRange, priceRange) ==
  /\ log # <<>>
  /\ Includes(FileText(log),
              zip \o <<"_">> \o sizeRange.label \o <<"_">> \o priceRange.label)

\* ------------------------------------------------- downloadRedfinData: loop
Running == pc \notin {"idle", "done", "killed", "aborted", "crashed"}

sizeRange == sizeRanges[sIdx]
priceRange == applicablePriceRanges[pIdx]

\* error.message of the exceptions raised inside the per-query try block
NavigationError == <<"Failed to navigate after 3 attempts">>
LoginError == <<"Login failed">>
NoButtonAfterLoginError == <<"Download button not found after login">>
NoPathAfterLoginError == <<"Download failed after login - no file path">>
NoPathError == <<"Download failed - no file path">>
TimeoutError == <<"Timeout 60000ms exceeded while waiting for event download">>
PageError == <<"Target page, context or browser has been closed">>
\* fs.renameSync names both paths in its message
RenameError(fname) ==
  <<"EXDEV: cross-device link not permitted, rename 'downloadPath' -> '",
    "data/raw/">> \o fname \o <<"'">>

\* the element [data-rf-test-id="search-count"] of the loaded page: absent
\* (waitForSelector times out) or present with its text
NoSearchCount == [present |-> FALSE, text |-> <<>>]
SearchCounts ==
  { NoSearchCount,
    [present |-> TRUE, text |-> << "h", "o", "m", "e", "s" >>],
    [present |-> TRUE, text |-> << "0", " ", "h", "o", "m", "e", "s" >>],
    [present |-> TRUE, text |-> << "1", " ", "h", "o", "m", "e" >>] }

\* process.env: a variable that is not set reads as undefined, modelled as ""
Envs ==
  [RF_USER_EMAIL : {"", "env-email"}, RF_USER_PASSWORD : {"", "env-password"}]

\* both variables are set
EnvSet ==
  processEnv = [RF_USER_EMAIL |-> "env-email",
                RF_USER_PASSWORD |-> "env-password"]

\* the string literals written in the source
EmbeddedEmail == "embedded-email"
EmbeddedPassword == "embedded-password"

\* a || b: b when a is undefined or the empty string
OrElse(a, b) == IF a = "" THEN b ELSE a

\* const email = process.env.RF_USER_EMAIL || '...'
email == OrElse(processEnv.RF_USER_EMAIL, EmbeddedEmail)

\* const password = process.env.RF_USER_PASSWORD || '...'
password == OrElse(processEnv.RF_USER_PASSWORD, EmbeddedPassword)

\* simpleDownload not started
SimpleIdle ==
  /\ sdPc = "idle"
  /\ interceptedCsvData = "null"
  /\ downloadEvent = "pending"
  /\ downloadSuccess = FALSE
  /\ handlersAttached = FALSE
  /\ browserOpen = FALSE
  /\ downloadUrls = <<>>
  /\ urlIdx = 1
  /\ sdLog = <<>>
  /\ strategies = <<>>
  /\ sdCalls = [waits |-> 0, clicks |-> 0, logins |-> 0]

\* handleRedfinLogin not called
LoginIdle ==
  /\ lgPc = "idle"
  /\ lgReturn = "none"
  /\ lgTrace = <<>>
  /\ lgSnapshots = <<>>
  /\ lgStillVisible = {}
  /\ typed = {}

\* no file is being processed
CsvIdle ==
  /\ csvPc = "idle"
  /\ csvFile = <<>>
  /\ unread = 1
  /\ records = <<>>
  /\ marketMatrix = <<>>

\* no function is being applied
StatsIdle ==
  /\ acresIn = Whole(0)
  /\ arrayIn = <<>>
  /\ percentileIn = 0
  /\ sizeCategoryOut = {}
  /\ medianOut = {}
  /\ percentileOut = {}

\* no chain is being probed
ProbeIdle ==
  /\ probeChain = "none"
  /\ probeOutcome = <<>>
  /\ probeResult = {}

\* downloadRedfinData not started, downloads.log not yet created
PipelineIdle ==
  /\ ledger = <<>>
  /\ run = 0
  /\ pc = "idle"
  /\ sIdx = 1
  /\ pIdx = 1
  /\ applicablePriceRanges = <<>>
  /\ attempts = 0
  /\ resultCount = 0
  /\ searchCount = NoSearchCount
  /\ viaLogin = FALSE
  /\ loginCalls = 0
  /\ filename = <<>>
  /\ targetSaved = FALSE
  /\ thrown = <<>>
  /\ totalDownloads = 0
  /\ successfulDownloads = 0
  /\ skippedDownloads = 0
  /\ clock = 1
  /\ danglingDownloadPromise = FALSE
  /\ waited = 0
  /\ queries = <<>>
  /\ skipChecks = {}

Init ==
  /\ \E config \in Configs :
       /\ sizeRanges = config.sizeRanges
       /\ priceRanges = config.priceRanges
  /\ PipelineIdle
  /\ SimpleIdle
  /\ LoginIdle
  /\ EnvSet
  /\ CsvIdle
  /\ StatsIdle
  /\ ProbeIdle

\* what a step of downloadRedfinData never touches: the configuration, the
\* observer's record of skip-checks (skipChecks is written by no pipeline
\* statement; SkipCheck records its decision there) and the other script
cfgVars == << sizeRanges, priceRanges, skipChecks, simpleVars,
             loginVars, csvVars >>
counters == << totalDownloads, successfulDownloads, skippedDownloads >>
queryVars == << attempts, resultCount, searchCount, viaLogin, loginCalls,
               filename, targetSaved,
               thrown >>
loopVars == << sIdx, pIdx, applicablePriceRanges >>

\* the process is gone: its locals no longer exist
ProcessExit(how) ==
  /\ pc' = how
  /\ sIdx' = 1
  /\ pIdx' = 1
  /\ applicablePriceRanges' = <<>>
  /\ attempts' = 0
  /\ resultCount' = 0
  /\ searchCount' = NoSearchCount
  /\ viaLogin' = FALSE
  /\ loginCalls' = 0
  /\ filename' = <<>>
  /\ targetSaved' = FALSE
  /\ thrown' = <<>>
  /\ totalDownloads' = 0
  /\ successfulDownloads' = 0
  /\ skippedDownloads' = 0
  /\ danglingDownloadPromise' = FALSE
  /\ waited' = 0
  /\ queries' = <<>>

\* main(): a fresh process starts downloadRedfinData with the same config
StartRun ==
  /\ ~Running
  /\ run < MaxRuns
  /\ run' = run + 1
  /\ ProcessExit("forSize")
  /\ UNCHANGED << cfgVars, ledger, clock >>

\* the query of the current iteration is concluded
Conclude(how) ==
  queries' = [queries EXCEPT ![Len(queries)].state = how]

\* the continue statement: next price range of the inner loop; waited is the
\* page.waitForTimeout pause made since the query was concluded (0: none)
Continue(pause) ==
  /\ pc' = "forPrice"
  /\ pIdx' = pIdx + 1
  /\ waited' = pause

\* logDownload(logDir, {county, sizeRange: label, priceRange: label, ...})
WriteLedger(status, fname, error) ==
  /\ Len(ledger) < MaxLedger
  /\ ledger' = logDownload(ledger,
       Entry(clock, sizeRange.label, priceRange.label, status, fname, error))
  /\ clock' = clock + 1
  /\ Conclude("logged")

\* variant: the loop over the size ranges ends at the first size range that
\* has no applicable price range
ForSizeRange_StopsAtEmpty ==
  /\ pc = "forSize"
  /\ IF /\ sIdx <= Len(sizeRanges)
        /\ getPriceRangesForSize(sizeRanges[sIdx], priceRanges) # <<>>
     THEN /\ applicablePriceRanges' =
               getPriceRangesForSize(sizeRanges[sIdx], priceRanges)
          /\ pIdx' = 1
          /\ pc' = "forPrice"
     ELSE /\ pc' = "close"
          /\ UNCHANGED << applicablePriceRanges, pIdx >>
  /\ UNCHANGED << cfgVars, ledger, run, sIdx, queryVars, counters, clock,
                  danglingDownloadPromise, queries,
                  waited >>

\* for (const sizeRange of sizeRanges)
ForSizeRange ==
  /\ pc = "forSize"
  /\ IF sIdx <= Len(sizeRanges)
     THEN /\ applicablePriceRanges' =
               getPriceRangesForSize(sizeRanges[sIdx], priceRanges)
          /\ pIdx' = 1
          /\ pc' = "forPrice"
     ELSE /\ pc' = "close"
          /\ UNCHANGED << applicablePriceRanges, pIdx >>
  /\ UNCHANGED << cfgVars, ledger, run, sIdx, queryVars, counters, clock,
                  danglingDownloadPromise, queries,
                  waited >>

\* for (const priceRange of applicablePriceRanges) { searchUrl = ...; try {
\* the locals of the previous iteration go out of scope
ForPriceRange ==
  /\ pc = "forPrice"
  /\ IF pIdx <= Len(applicablePriceRanges)
     THEN /\ pc' = "check"
          /\ queries' = Append(queries,
               [size |-> sizeRange.label, price |-> priceRange.label,
                state |-> "inflight"])
          /\ UNCHANGED sIdx
     ELSE /\ pc' = "forSize"
          /\ sIdx' = sIdx + 1
          /\ UNCHANGED queries
  /\ attempts' = 0
  /\ resultCount' = 0
  /\ searchCount' = NoSearchCount
  /\ viaLogin' = FALSE
  /\ loginCalls' = 0
  /\ filename' = <<>>
  /\ targetSaved' = FALSE
  /\ thrown' = <<>>
  /\ waited' = 0
  /\ UNCHANGED << cfgVars, ledger, run, pIdx, applicablePriceRanges, counters,
                  clock, danglingDownloadPromise >>

\* variant: the skip branch writes a line of its own to the ledger
SkipCheck_LogsSkip ==
  /\ pc = "check"
  /\ IF isAlreadyDownloaded(ledger, county, sizeRange, priceRange)
     THEN /\ skippedDownloads' = skippedDownloads + 1
          /\ pc' = "skipped"
          /\ WriteLedger("skipped", <<>>, <<>>)
     ELSE /\ pc' = "navigate"
          /\ UNCHANGED << skippedDownloads, queries, ledger, clock >>
  /\ LET key == << Len(ledger), sizeRange.label, priceRange.label >>
         decision == isAlreadyDownloaded(ledger, county, sizeRange, priceRange)
     IN  skipChecks' = skipChecks \cup
           { [key |-> key, decision |-> decision,
              again |-> \E c \in skipChecks : c.key = key] }
  /\ UNCHANGED << sizeRanges, priceRanges, simpleVars, loginVars, csvVars,
                  run, loopVars,
                  queryVars, totalDownloads, successfulDownloads,
                  danglingDownloadPromise,
                  waited >>

\* if (isAlreadyDownloaded(...)) { skippedDownloads++; continue; }
SkipCheck ==
  /\ pc = "check"
  /\ IF isAlreadyDownloaded(ledger, county, sizeRange, priceRange)
     THEN /\ skippedDownloads' = skippedDownloads + 1
          /\ pc' = "skipped"
          /\ Conclude("skipped")
     ELSE /\ pc' = "navigate"
          /\ UNCHANGED << skippedDownloads, queries >>
  /\ LET key == << Len(ledger), sizeRange.label, priceRange.label >>
         decision == isAlreadyDownloaded(ledger, county, sizeRange, priceRange)
     IN  skipChecks' = skipChecks \cup
           { [key |-> key, decision |-> decision,
              again |-> \E c \in skipChecks : c.key = key] }
  /\ UNCHANGED << sizeRanges, priceRanges, simpleVars, loginVars, csvVars,
                  ledger, run, loopVars,
                  queryVars, totalDownloads, successfulDownloads, clock,
                  danglingDownloadPromise,
                  waited >>

\* the continue statement of the skip branch
SkipContinue ==
  /\ pc = "skipped"
  /\ Continue(0)
  /\ UNCHANGED << cfgVars, ledger, run, sIdx, applicablePriceRanges, queryVars,
                  counters, clock, danglingDownloadPromise, queries >>

\* page.goto with retry: while (!navigationSuccess && attempts < maxAttempts);
\* attempts is not read after the loop
Navigate ==
  /\ pc = "navigate"
  /\ attempts < maxAttempts
  /\ \E navigationSuccess \in BOOLEAN :
       IF navigationSuccess
       THEN pc' = "count" /\ attempts' = 0 /\ waited' = 0
            /\ searchCount' \in SearchCounts
            /\ UNCHANGED thrown
       ELSE IF attempts + 1 < maxAttempts
            THEN pc' = "navigate" /\ attempts' = attempts + 1
                 /\ waited' = retryWait
                 /\ UNCHANGED << thrown, searchCount >>
            ELSE pc' = "catch" /\ attempts' = attempts + 1
                 /\ waited' = 0
                 /\ thrown' = NavigationError
                 /\ UNCHANGED searchCount
  /\ UNCHANGED << cfgVars, ledger, run, loopVars, resultCount, viaLogin,
                  loginCalls,
                  filename,
                  targetSaved, counters, clock, danglingDownloadPromise,
                  queries >>

\* countText.match(/(\d+)/): the first run of digits of the text, <<>> for
\* null
RECURSIVE MatchDigits(_)
MatchDigits(text) ==
  IF text = <<>> THEN <<>>
  ELSE IF IsDigit(Head(text)) THEN SubSeq(text, 1, DigitRun(text, 1))
  ELSE MatchDigits(Tail(text))

\* checkResultCount(page, limit): the catch block (the element did not appear
\* within the timeout) and a text without digits both give count 0
checkResultCount(element, limit) ==
  IF ~element.present THEN [count |-> 0, exceedsLimit |-> FALSE]
  ELSE LET match == MatchDigits(element.text)
           count == IF match # <<>> THEN DigitsValue(match) ELSE 0
       IN  [count |-> count, exceedsLimit |-> count > limit]

\* variant: a query without results is counted as a download attempt
CheckResultCount_CountsAttempt ==
  /\ pc = "count"
  /\ LET count == checkResultCount(searchCount, 300).count IN
       /\ resultCount' = count
       /\ IF count = 0
          THEN /\ WriteLedger("no_results", <<>>, <<>>)
               /\ Continue(0)
               /\ totalDownloads' = totalDownloads + 1
          ELSE /\ pc' = "button"
               /\ UNCHANGED << ledger, clock, pIdx, queries, waited,
                               totalDownloads >>
  /\ UNCHANGED << cfgVars, run, sIdx, applicablePriceRanges, attempts,
                  viaLogin, loginCalls, filename,
                  targetSaved, thrown, searchCount,
                  successfulDownloads, skippedDownloads,
                  danglingDownloadPromise >>

\* checkResultCount; count === 0 -> logDownload no_results; continue
CheckResultCount ==
  /\ pc = "count"
  /\ LET count == checkResultCount(searchCount, 300).count IN
       /\ resultCount' = count
       /\ IF count = 0
          THEN /\ WriteLedger("no_results", <<>>, <<>>)
               /\ Continue(0)
          ELSE /\ pc' = "button"
               /\ UNCHANGED << ledger, clock, pIdx, queries, waited >>
  /\ UNCHANGED << cfgVars, run, sIdx, applicablePriceRanges, attempts,
                  viaLogin, loginCalls, filename,
                  targetSaved, thrown, searchCount,
                  counters, danglingDownloadPromise >>

\* variant: a missing download button goes on to the next query without a
\* ledger entry
FindDownloadButton_NoLog ==
  /\ pc = "button"
  /\ \E downloadButton \in BOOLEAN :
       IF downloadButton
       THEN /\ pc' = "click"
            /\ UNCHANGED << pIdx, waited >>
       ELSE Continue(0)
  /\ UNCHANGED << cfgVars, run, sIdx, applicablePriceRanges, queryVars,
                  counters, danglingDownloadPromise, ledger, clock, queries >>

\* findDownloadButton; null -> logDownload no_download_button; continue
FindDownloadButton ==
  /\ pc = "button"
  /\ \E downloadButton \in BOOLEAN :
       IF downloadButton
       THEN /\ pc' = "click"
            /\ UNCHANGED << ledger, clock, pIdx, queries, waited >>
       ELSE /\ WriteLedger("no_download_button", <<>>, <<>>)
            /\ Continue(0)
  /\ UNCHANGED << cfgVars, run, sIdx, applicablePriceRanges, queryVars,
                  counters, danglingDownloadPromise >>

\* downloadPromise = context.waitForEvent('download'); downloadButton.click()
ClickDownload ==
  /\ pc = "click"
  /\ pc' = "detect"
  /\ UNCHANGED << cfgVars, ledger, run, loopVars, queryVars, counters, clock,
                  danglingDownloadPromise, queries,
                  waited >>

\* probe loginModalSelectors; with loginRequired the promise of line 477 is
\* never awaited
DetectLogin ==
  /\ pc = "detect"
  /\ \E loginRequired \in BOOLEAN :
       /\ viaLogin' = loginRequired
       /\ IF loginRequired
          THEN pc' = "login" /\ danglingDownloadPromise' = TRUE
          ELSE pc' = "awaitDownload" /\ UNCHANGED danglingDownloadPromise
  /\ UNCHANGED << cfgVars, ledger, run, loopVars, attempts, resultCount,
                  searchCount,
                  loginCalls, filename,
                  targetSaved, thrown, counters, clock, queries,
                  waited >>

\* loginSuccess = await handleRedfinLogin(...); false -> throw 'Login failed'
HandleLogin ==
  /\ pc = "login"
  /\ \E loginSuccess \in BOOLEAN :
       IF loginSuccess
       THEN pc' = "buttonAfterLogin" /\ UNCHANGED thrown
       ELSE pc' = "catch" /\ thrown' = LoginError
  /\ loginCalls' = loginCalls + 1
  /\ UNCHANGED << cfgVars, ledger, run, loopVars, attempts, resultCount,
                  searchCount,
                  viaLogin, filename, targetSaved, counters, clock,
                  danglingDownloadPromise, queries,
                  waited >>

\* findDownloadButton again; newDownloadPromise; click
FindButtonAfterLogin ==
  /\ pc = "buttonAfterLogin"
  /\ \E downloadButtonAfterLogin \in BOOLEAN :
       IF downloadButtonAfterLogin
       THEN pc' = "awaitNew" /\ UNCHANGED thrown
       ELSE pc' = "catch" /\ thrown' = NoButtonAfterLoginError
  /\ UNCHANGED << cfgVars, ledger, run, loopVars, attempts, resultCount,
                  searchCount,
                  viaLogin, loginCalls, filename, targetSaved, counters, clock,
                  danglingDownloadPromise, queries,
                  waited >>

\* outcomes of waiting for the browser's download event and download.path()
DownloadOutcomes == {"path", "nopath", "timeout"}

\* download = await <promise>; downloadPath = await download.path();
\* a download event settles every pending waitForEvent('download')
AwaitOutcome(outcome, noPathError) ==
  CASE outcome = "path" ->
         /\ pc' = "move"
         /\ danglingDownloadPromise' = FALSE
         /\ UNCHANGED thrown
    [] outcome = "nopath" ->
         /\ pc' = "catch"
         /\ thrown' = noPathError
         /\ danglingDownloadPromise' = FALSE
    [] outcome = "timeout" ->
         /\ pc' = "catch"
         /\ thrown' = TimeoutError
         /\ UNCHANGED danglingDownloadPromise

\* download = await newDownloadPromise
AwaitNewDownload ==
  /\ pc = "awaitNew"
  /\ \E outcome \in DownloadOutcomes :
       AwaitOutcome(outcome, NoPathAfterLoginError)
  /\ UNCHANGED << cfgVars, ledger, run, loopVars, attempts, resultCount,
                  searchCount,
                  viaLogin, loginCalls, filename,
                  targetSaved, counters, clock, queries,
                  waited >>

\* download = await downloadPromise
AwaitDownload ==
  /\ pc = "awaitDownload"
  /\ \E outcome \in DownloadOutcomes :
       AwaitOutcome(outcome, NoPathError)
  /\ UNCHANGED << cfgVars, ledger, run, loopVars, attempts, resultCount,
                  searchCount,
                  viaLogin, loginCalls, filename,
                  targetSaved, counters, clock, queries,
                  waited >>

\* variant: the entry is written whether or not the rename succeeded
MoveFile_LogsUnmoved ==
  /\ pc = "move"
  /\ filename' = createSafeFilename(county, sizeRange, priceRange, clock)
  /\ clock' = clock + 1
  /\ \E moved \in BOOLEAN :
       /\ pc' = "logSuccess"
       /\ targetSaved' = moved
       /\ UNCHANGED thrown
  /\ UNCHANGED << cfgVars, ledger, run, loopVars, attempts, resultCount,
                  searchCount, viaLogin, loginCalls, counters,
                  danglingDownloadPromise, queries, waited >>

\* filename = createSafeFilename(...); fs.renameSync(downloadPath, targetPath);
\* targetSaved: the file of this query is in data/raw under its final name
MoveFile ==
  /\ pc = "move"
  /\ filename' = createSafeFilename(county, sizeRange, priceRange, clock)
  /\ clock' = clock + 1
  /\ \E moved \in BOOLEAN :
       IF moved
       THEN pc' = "logSuccess" /\ targetSaved' = TRUE /\ UNCHANGED thrown
       ELSE /\ pc' = "catch" /\ thrown' = RenameError(filename')
            /\ UNCHANGED targetSaved
  /\ UNCHANGED << cfgVars, ledger, run, loopVars, attempts, resultCount,
                  searchCount,
                  viaLogin,
                  loginCalls, counters, danglingDownloadPromise, queries,
                  waited >>

\* logDownload status success; successfulDownloads++; totalDownloads++
LogSuccess ==
  /\ pc = "logSuccess"
  /\ WriteLedger("success", filename, <<>>)
  /\ successfulDownloads' = successfulDownloads + 1
  /\ totalDownloads' = totalDownloads + 1
  /\ pc' = "delay"
  /\ UNCHANGED << cfgVars, run, loopVars, queryVars, skippedDownloads,
                  danglingDownloadPromise,
                  waited >>

\* await page.waitForTimeout(5000 | 15000) after a logged success, still
\* inside the try block
DelayAfterSuccess ==
  /\ pc = "delay"
  /\ \E ok \in BOOLEAN :
       IF ok
       THEN /\ Continue(IF viaLogin THEN delayAfterLoginSuccess
                                    ELSE delayAfterSuccess)
            /\ UNCHANGED thrown
       ELSE pc' = "catch" /\ thrown' = PageError
            /\ UNCHANGED << pIdx, waited >>
  /\ UNCHANGED << cfgVars, ledger, run, sIdx, applicablePriceRanges, attempts,
                  resultCount,
                  searchCount, viaLogin, loginCalls, filename,
                  targetSaved, counters, clock,
                  danglingDownloadPromise, queries >>

\* catch (error) { logDownload status error; totalDownloads++;
Catch ==
  /\ pc = "catch"
  /\ WriteLedger("error", <<>>, thrown)
  /\ totalDownloads' = totalDownloads + 1
  /\ pc' = "delayErr"
  /\ UNCHANGED << cfgVars, run, loopVars, queryVars, successfulDownloads,
                  skippedDownloads, danglingDownloadPromise,
                  waited >>

\* await page.waitForTimeout(10000); continue }  -- this wait is inside the
\* catch block: when it raises, the exception leaves downloadRedfinData
DelayAfterError ==
  /\ pc = "delayErr"
  /\ \E ok \in BOOLEAN :
       IF ok
       THEN /\ Continue(delayAfterError)
            /\ UNCHANGED << sIdx, applicablePriceRanges, queryVars, counters,
                            danglingDownloadPromise, queries >>
       ELSE ProcessExit("aborted")
  /\ UNCHANGED << cfgVars, ledger, run, clock >>

\* await browser.close(); summary
Close ==
  /\ pc = "close"
  /\ pc' = "done"
  /\ UNCHANGED << cfgVars, ledger, run, loopVars, queryVars, counters, clock,
                  danglingDownloadPromise, queries,
                  waited >>

\* the never-awaited waitForEvent promise rejects on its timeout with no
\* handler attached: the runtime either only warns or terminates the process
UnhandledRejection ==
  /\ Running
  /\ danglingDownloadPromise
  /\ pc \notin {"login", "buttonAfterLogin"}
  /\ \E terminate \in BOOLEAN :
       IF terminate
       THEN ProcessExit("crashed")
       ELSE /\ danglingDownloadPromise' = FALSE
            /\ UNCHANGED << pc, loopVars, queryVars, counters, queries,
                            waited >>
  /\ UNCHANGED << cfgVars, ledger, run, clock >>

\* process-level interruption at any point of a run
Kill ==
  /\ Running
  /\ ProcessExit("killed")
  /\ UNCHANGED << cfgVars, ledger, run, clock >>

Next ==
  \/ StartRun
  \/ ForSizeRange
  \/ ForPriceRange
  \/ SkipCheck
  \/ SkipContinue
  \/ Navigate
  \/ CheckResultCount
  \/ FindDownloadButton
  \/ ClickDownload
  \/ DetectLogin
  \/ HandleLogin
  \/ FindButtonAfterLogin
  \/ AwaitNewDownload
  \/ AwaitDownload
  \/ MoveFile
  \/ LogSuccess
  \/ DelayAfterSuccess
  \/ Catch
  \/ DelayAfterError
  \/ Close
  \/ UnhandledRejection
  \/ Kill

Spec == Init /\ [][Next]_vars

\* ------------------------------------------------------------ simpleDownload
pipelineVars == << sizeRanges, priceRanges, ledger, run, pc, sIdx, pIdx,
                   applicablePriceRanges, attempts, resultCount,
                   searchCount, viaLogin,
                   loginCalls,
                   filename,
                   targetSaved, thrown, totalDownloads, successfulDownloads,
                   skippedDownloads, clock, danglingDownloadPromise, waited,
                   queries, skipChecks >>

\* logDownload(logDir, {county, filters, status, filename, timestamp, method})
sdLogDownload(status, method) ==
  sdLog' = Append(sdLog, [status |-> status, method |-> method])

\* if (!email || !password) return; browser launch, navigation and filter UI
\* (lines 654-886)
SdStart ==
  /\ sdPc = "idle"
  /\ IF processEnv.RF_USER_EMAIL # "" /\ processEnv.RF_USER_PASSWORD # ""
     THEN sdPc' = "findButton" /\ browserOpen' = TRUE
     ELSE sdPc' = "done" /\ UNCHANGED browserOpen
  /\ UNCHANGED << pipelineVars, loginVars, csvVars,
                  sdCalls, interceptedCsvData, downloadEvent,
                  downloadSuccess, handlersAttached, downloadUrls, urlIdx,
                  sdLog, strategies >>

\* probe downloadSelectors; no button: return (the finally block still runs)
SdFindButton ==
  /\ sdPc = "findButton"
  /\ \E downloadButton \in BOOLEAN :
       sdPc' = IF downloadButton THEN "click" ELSE "finally"
  /\ UNCHANGED << pipelineVars, loginVars, csvVars,
                  sdCalls, interceptedCsvData, downloadEvent,
                  downloadSuccess, handlersAttached, browserOpen, downloadUrls,
                  urlIdx, sdLog, strategies >>

\* what the response handler can have stored and how the download wait of
\* 5000 ms can have ended when the 5000 ms pause after the click is over
InterceptedValues == {"null", "empty", "data"}
\* ("emptyfile": the event fired and download.path() names a file of 0 bytes)
DownloadEvents == {"download", "emptyfile", "nopath", "timeout"}

\* page.on(request/response); downloadPromise = waitForEvent('download').catch;
\* downloadButton.click(); waitForTimeout(5000)
SdClickDownload ==
  /\ sdPc = "click"
  /\ handlersAttached' = TRUE
  /\ interceptedCsvData' \in InterceptedValues
  /\ downloadEvent' \in DownloadEvents
  /\ sdCalls' = [sdCalls EXCEPT !.waits = @ + 1, !.clicks = @ + 1]
  /\ sdPc' = "checkIntercepted"
  /\ UNCHANGED << pipelineVars, loginVars, csvVars,
                  downloadSuccess, browserOpen, downloadUrls,
                  urlIdx, sdLog, strategies >>

\* if (interceptedCsvData) { writeFileSync; logDownload success; page.off;
\* return }
SdCheckIntercepted ==
  /\ sdPc = "checkIntercepted"
  /\ strategies' = Append(strategies, "network_interception")
  /\ IF interceptedCsvData = "data"
     THEN /\ sdLogDownload("success", "network_interception")
          /\ downloadSuccess' = TRUE
          /\ handlersAttached' = FALSE
          /\ sdPc' = "finally"
     ELSE /\ sdPc' = "detectLogin"
          /\ UNCHANGED << sdLog, downloadSuccess, handlersAttached >>
  /\ UNCHANGED << pipelineVars, loginVars, csvVars, sdCalls, interceptedCsvData,
                  downloadEvent, browserOpen,
                  downloadUrls, urlIdx >>

\* probe loginModalSelectors
SdDetectLogin ==
  /\ sdPc = "detectLogin"
  /\ \E loginRequired \in BOOLEAN :
       sdPc' = IF loginRequired THEN "login" ELSE "traditional"
  /\ UNCHANGED << pipelineVars, loginVars, csvVars,
                  sdCalls, interceptedCsvData, downloadEvent,
                  downloadSuccess, handlersAttached, browserOpen, downloadUrls,
                  urlIdx, sdLog, strategies >>

\* loginSuccess = await handleRedfinLogin(...); a failed login is only printed
SdLogin ==
  /\ sdPc = "login"
  /\ \E loginSuccess \in BOOLEAN :
       sdPc' = IF loginSuccess THEN "buttonAfterLogin" ELSE "traditional"
  /\ sdCalls' = [sdCalls EXCEPT !.logins = @ + 1]
  /\ UNCHANGED << pipelineVars, loginVars, csvVars, interceptedCsvData, downloadEvent,
                  downloadSuccess, handlersAttached, browserOpen, downloadUrls,
                  urlIdx, sdLog, strategies >>

\* find the button again, click (no download wait is registered here),
\* waitForTimeout(5000), and look at what the response handler has stored
\* (body "null": no response of the export endpoint during the pause);
\* success here does not return
SdClickAfterLogin ==
  /\ sdPc = "buttonAfterLogin"
  /\ \E downloadButtonAfterLogin \in BOOLEAN, body \in InterceptedValues :
       IF downloadButtonAfterLogin
       THEN /\ interceptedCsvData' =
                 IF body = "null" THEN interceptedCsvData ELSE body
            /\ sdCalls' = [sdCalls EXCEPT !.clicks = @ + 1]
            /\ strategies' = Append(strategies, "network_interception")
            /\ IF interceptedCsvData' = "data"
               THEN /\ sdLogDownload("success", "network_interception")
                    /\ downloadSuccess' = TRUE
               ELSE UNCHANGED << sdLog, downloadSuccess >>
       ELSE UNCHANGED << interceptedCsvData, strategies, sdLog,
                         downloadSuccess, sdCalls >>
  /\ sdPc' = "traditional"
  /\ UNCHANGED << pipelineVars, loginVars, csvVars,
                  downloadEvent, handlersAttached, browserOpen,
                  downloadUrls, urlIdx >>

\* download = await downloadPromise; path -> renameSync, logDownload success,
\* method traditional (the size of the file is not looked at); an error of
\* the move is caught and printed
SdTraditional ==
  /\ sdPc = "traditional"
  /\ strategies' = Append(strategies, "traditional")
  /\ \E moved \in BOOLEAN :
       IF downloadEvent \in {"download", "emptyfile"} /\ moved
       THEN /\ sdLogDownload("success", "traditional")
            /\ downloadSuccess' = TRUE
            /\ sdPc' = "final"
       ELSE /\ sdPc' = IF downloadSuccess THEN "final" ELSE "extract"
            /\ UNCHANGED << sdLog, downloadSuccess >>
  /\ UNCHANGED << pipelineVars, loginVars, csvVars,
                  sdCalls, interceptedCsvData, downloadEvent,
                  handlersAttached, browserOpen, downloadUrls, urlIdx >>

\* kinds of entries extractDownloadUrls can return
UrlKinds == {"csv", "page"}

\* if (!downloadSuccess) { downloadUrls = await extractDownloadUrls(page) ...
SdExtractUrls ==
  /\ sdPc = "extract"
  /\ \E n \in 0..MaxUrls : downloadUrls' \in [1..n -> UrlKinds]
  /\ urlIdx' = 1
  /\ sdPc' = IF downloadUrls' = <<>> THEN "final" ELSE "replay"
  /\ UNCHANGED << pipelineVars, loginVars, csvVars,
                  sdCalls, interceptedCsvData, downloadEvent,
                  downloadSuccess, handlersAttached, browserOpen, sdLog,
                  strategies >>

\* outcomes of downloadFileFromUrl and of the browser fallback after HTTP 403
ReplayOutcomes == {"saved", "browser_saved", "failed"}

\* one iteration of for (i < downloadUrls.length): skip a non-data URL, else
\* downloadFileFromUrl with the session cookies; every saved URL logs success
SdReplayUrl ==
  /\ sdPc = "replay"
  /\ urlIdx <= Len(downloadUrls)
  /\ IF downloadUrls[urlIdx] = "page"
     THEN UNCHANGED << sdLog, downloadSuccess, strategies >>
     ELSE /\ strategies' = Append(strategies, "direct_url")
          /\ \E outcome \in ReplayOutcomes :
               CASE outcome = "saved" ->
                      /\ sdLogDownload("success", "direct_url")
                      /\ downloadSuccess' = TRUE
                 [] outcome = "browser_saved" ->
                      /\ sdLogDownload("success", "browser_direct")
                      /\ downloadSuccess' = TRUE
                 [] outcome = "failed" ->
                      /\ IF downloadSuccess
                         THEN UNCHANGED sdLog
                         ELSE sdLogDownload("failed", "direct_url")
                      /\ UNCHANGED downloadSuccess
  /\ urlIdx' = urlIdx + 1
  /\ sdPc' = IF urlIdx' > Len(downloadUrls) THEN "final" ELSE "replay"
  /\ UNCHANGED << pipelineVars, loginVars, csvVars,
                  sdCalls, interceptedCsvData, downloadEvent,
                  handlersAttached, browserOpen, downloadUrls >>

\* final screenshot and pause
SdFinal ==
  /\ sdPc = "final"
  /\ sdPc' = "finally"
  /\ UNCHANGED << pipelineVars, loginVars, csvVars,
                  sdCalls, interceptedCsvData, downloadEvent,
                  downloadSuccess, handlersAttached, browserOpen, downloadUrls,
                  urlIdx, sdLog, strategies >>

\* an awaited browser call raises inside the try block
SdThrow ==
  /\ sdPc \in {"findButton", "click", "detectLogin", "login", "final"}
  /\ sdPc' = "catch"
  /\ UNCHANGED << pipelineVars, loginVars, csvVars,
                  sdCalls, interceptedCsvData, downloadEvent,
                  downloadSuccess, handlersAttached, browserOpen, downloadUrls,
                  urlIdx, sdLog, strategies >>

\* catch (error) { await page.screenshot(...) }: the screenshot is awaited
\* outside any try, its rejection leaves simpleDownload after the finally block
SdCatch ==
  /\ sdPc = "catch"
  /\ \E screenshotTaken \in BOOLEAN :
       sdPc' = IF screenshotTaken THEN "finally" ELSE "finallyRejected"
  /\ UNCHANGED << pipelineVars, loginVars, csvVars,
                  sdCalls, interceptedCsvData, downloadEvent,
                  downloadSuccess, handlersAttached, browserOpen, downloadUrls,
                  urlIdx, sdLog, strategies >>

\* the response handler (page.on('response')) runs whenever a response of the
\* export endpoint with status 200 arrives, at any await of the script
SdResponseHandler ==
  /\ handlersAttached
  /\ sdPc \in {"detectLogin", "login", "buttonAfterLogin", "traditional",
               "extract", "replay", "final"}
  /\ \E body \in InterceptedValues \ {"null", interceptedCsvData} :
       interceptedCsvData' = body
  /\ UNCHANGED << pipelineVars, loginVars, csvVars,
                  sdCalls, sdPc, downloadEvent, downloadSuccess,
                  handlersAttached, browserOpen, downloadUrls, urlIdx, sdLog,
                  strategies >>

\* finally { page.off(...); await browser.close(); }
SdFinally ==
  /\ sdPc \in {"finally", "finallyRejected"}
  /\ handlersAttached' = FALSE
  /\ browserOpen' = FALSE
  /\ sdPc' = IF sdPc = "finally" THEN "done" ELSE "rejected"
  /\ UNCHANGED << pipelineVars, loginVars, csvVars,
                  sdCalls, interceptedCsvData, downloadEvent,
                  downloadSuccess, downloadUrls, urlIdx, sdLog, strategies >>

InitSimple ==
  /\ sizeRanges = <<>>
  /\ priceRanges = <<>>
  /\ PipelineIdle
  /\ SimpleIdle
  /\ LoginIdle
  /\ processEnv \in Envs
  /\ CsvIdle
  /\ StatsIdle
  /\ ProbeIdle

NextSimple ==
  \/ SdStart
  \/ SdFindButton
  \/ SdClickDownload
  \/ SdCheckIntercepted
  \/ SdDetectLogin
  \/ SdLogin
  \/ SdClickAfterLogin
  \/ SdTraditional
  \/ SdExtractUrls
  \/ SdReplayUrl
  \/ SdFinal
  \/ SdThrow
  \/ SdCatch
  \/ SdResponseHandler
  \/ SdFinally

SpecSimple == InitSimple /\ [][NextSimple]_vars

\* --------------------------------------------------------- handleRedfinLogin
\* selector fallback chains of handleRedfinLogin (redfinDownloader)
emailInsteadSelectors ==
  << "text=\"Sign in with email instead\"",
     "a:has-text(\"Sign in with email instead\")",
     "button:has-text(\"Sign in with email instead\")",
     "a:has-text(\"email instead\")",
     "[href*=\"email\"]" >>

emailInsteadSelectorsAfter ==
  << "text=\"Sign in with email instead\"",
     "a:has-text(\"Sign in with email instead\")",
     "button:has-text(\"Sign in with email instead\")",
     "a:has-text(\"email instead\")",
     "a:has-text(\"email\")",
     "[href*=\"email\"]",
     "*:has-text(\"email\")" >>

emailSelectors ==
  << "input[type=\"email\"]",
     "input[name=\"email\"]",
     "input[placeholder*=\"email\" i]",
     "input[placeholder*=\"Email\" i]",
     "#email",
     "[data-rf-test-id=\"email\"]",
     "[data-testid=\"email\"]",
     "input[autocomplete=\"email\"]",
     "input[autocomplete=\"username\"]" >>

passwordSelectors ==
  << "input[type=\"password\"]",
     "input[name=\"password\"]",
     "input[placeholder*=\"password\" i]",
     "input[placeholder*=\"Password\" i]",
     "#password",
     "[data-rf-test-id=\"password\"]",
     "[data-testid=\"password\"]",
     "input[autocomplete=\"current-password\"]",
     "input[autocomplete=\"password\"]" >>

loginButtonSelectors ==
  << "button:has-text(\"Continue with email\")",
     "button:has-text(\"Sign in\")",
     "button:has-text(\"Log in\")",
     "button:has-text(\"Continue\")",
     "button[type=\"submit\"]",
     "input[type=\"submit\"]",
     "[data-rf-test-id=\"login-button\"]",
     "[data-testid=\"login-button\"]",
     ".login-button" >>

Selectors(chain) == { chain[i] : i \in DOMAIN chain }

\* for (const selector of chain) { if (await element.isVisible()) ... break }:
\* the position of the first selector with a visible element, 0 if none
FirstVisible(chain, visible) ==
  IF \E i \in DOMAIN chain : chain[i] \in visible
  THEN CHOOSE i \in DOMAIN chain :
         /\ chain[i] \in visible
         /\ \A j \in 1..(i - 1) : chain[j] \notin visible
  ELSE 0

\* what of a chain the page can show when it is probed: nothing, one element
\* that matches one selector, or elements for all of them
Visibles(chain) ==
  {{}} \cup { {chain[i]} : i \in DOMAIN chain } \cup { Selectors(chain) }

LgRunning == lgPc # "idle" /\ lgReturn = "none"

\* return false / return true: the value is a bare boolean
LgReturn(value) ==
  /\ lgReturn' = value
  /\ UNCHANGED lgPc

LgDid(events) == lgTrace' = lgTrace \o events

\* page.screenshot({path: <name>_<ts>.png}), taken in the stage lgPc
LgSnapshot(name) == lgSnapshots' = Append(lgSnapshots, << name, lgPc >>)

otherVars == << sizeRanges, priceRanges, ledger, run, pc, sIdx, pIdx,
                applicablePriceRanges, attempts, resultCount,
                searchCount, viaLogin,
                loginCalls,
                filename,
                targetSaved, thrown, totalDownloads, successfulDownloads,
                skippedDownloads, clock, danglingDownloadPromise, waited,
                queries, skipChecks, simpleVars, processEnv, csvVars >>

\* the call; screenshot of the login dialog, waitForTimeout(2000)
LgStart ==
  /\ lgPc = "idle"
  /\ lgPc' = "unlock"
  /\ lgSnapshots' = Append(lgSnapshots, << "login_dialog", "start" >>)
  /\ UNCHANGED << otherVars, typed, lgReturn, lgTrace, lgStillVisible >>

\* variant: the unlock modal is a required state
LgUnlock_Required ==
  /\ LgRunning /\ lgPc = "unlock"
  /\ \E unlockModal, emailButton \in BOOLEAN :
       IF unlockModal /\ emailButton
       THEN /\ LgDid(<< "see:unlock", "click:continueEmail" >>)
            /\ lgPc' = "welcomeBack"
            /\ UNCHANGED lgReturn
       ELSE /\ LgDid(IF unlockModal THEN << "see:unlock" >> ELSE <<>>)
            /\ LgReturn("false")
  /\ UNCHANGED << otherVars, typed, lgSnapshots, lgStillVisible >>

\* Step 1: "Unlock the full experience" modal and its "Continue with email"
LgUnlock ==
  /\ LgRunning /\ lgPc = "unlock"
  /\ \E unlockModal, emailButton \in BOOLEAN :
       IF unlockModal
       THEN IF emailButton
            THEN /\ LgDid(<< "see:unlock", "click:continueEmail" >>)
                 /\ lgPc' = "welcomeBack"
                 /\ UNCHANGED lgReturn
            ELSE /\ LgDid(<< "see:unlock" >>)
                 /\ LgReturn("false")
       ELSE /\ lgPc' = "welcomeBack"
            /\ UNCHANGED << lgReturn, lgTrace >>
  /\ UNCHANGED << otherVars, typed, lgSnapshots, lgStillVisible >>

\* variant: with the Google suggestion shown and the chain exhausted the flow
\* goes on to the email and password form
LgWelcomeBack_NoBranch ==
  /\ LgRunning /\ lgPc = "welcomeBack"
  /\ \E welcomeBackModal, googleSuggestion \in BOOLEAN,
        visible \in Visibles(emailInsteadSelectors) :
       LgDid(IF ~welcomeBackModal THEN <<>>
             ELSE IF ~googleSuggestion THEN << "see:welcomeBack" >>
             ELSE IF FirstVisible(emailInsteadSelectors, visible) # 0
             THEN << "see:welcomeBack", "see:google", "click:emailInstead" >>
             ELSE << "see:welcomeBack", "see:google" >>)
  /\ lgPc' = "email"
  /\ UNCHANGED << otherVars, typed, lgReturn, lgSnapshots, lgStillVisible >>

\* Step 2: "Welcome back" modal; with the Google suggestion the "Sign in with
\* email instead" chain must give an element, which is clicked
LgWelcomeBack ==
  /\ LgRunning /\ lgPc = "welcomeBack"
  /\ \E welcomeBackModal, googleSuggestion \in BOOLEAN,
        visible \in Visibles(emailInsteadSelectors) :
       IF ~welcomeBackModal
       THEN /\ lgPc' = "email"
            /\ UNCHANGED << lgReturn, lgTrace, lgSnapshots >>
       ELSE IF ~googleSuggestion
       THEN /\ LgDid(<< "see:welcomeBack" >>)
            /\ lgPc' = "email"
            /\ UNCHANGED << lgReturn, lgSnapshots >>
       ELSE IF FirstVisible(emailInsteadSelectors, visible) # 0
       THEN /\ LgDid(<< "see:welcomeBack", "see:google",
                        "click:emailInstead" >>)
            /\ lgPc' = "email"
            /\ UNCHANGED << lgReturn, lgSnapshots >>
       ELSE /\ LgDid(<< "see:welcomeBack", "see:google" >>)
            /\ LgSnapshot("welcome_back_debug")
            /\ LgReturn("false")
  /\ UNCHANGED << otherVars, typed, lgStillVisible >>

\* Step 3: the email chain; no visible element: return false
LgEmail ==
  /\ LgRunning /\ lgPc = "email"
  /\ \E visible \in Visibles(emailSelectors) :
       IF FirstVisible(emailSelectors, visible) # 0
       THEN lgPc' = "fillEmail" /\ UNCHANGED lgReturn
       ELSE LgReturn("false")
  /\ UNCHANGED << otherVars, typed, lgTrace, lgSnapshots, lgStillVisible >>

\* click the input; fill it unless it already holds an address
LgFillEmail ==
  /\ LgRunning /\ lgPc = "fillEmail"
  /\ \E currentEmail \in BOOLEAN :
       IF currentEmail
       THEN UNCHANGED << lgTrace, typed >>
       ELSE LgDid(<< "fill:email" >>) /\ typed' = typed \cup {email}
  /\ lgPc' = "continueEmail"
  /\ UNCHANGED << otherVars, lgReturn, lgSnapshots, lgStillVisible >>

\* "Continue with email" after the email: clicked when visible, and only then
\* is the "Welcome back" modal probed again
LgContinueEmail ==
  /\ LgRunning /\ lgPc = "continueEmail"
  /\ \E continueEmailButton \in BOOLEAN :
       IF continueEmailButton
       THEN /\ LgDid(<< "click:continueEmail" >>)
            /\ lgPc' = "welcomeBackAfter"
       ELSE /\ lgPc' = "password"
            /\ UNCHANGED lgTrace
  /\ UNCHANGED << otherVars, typed, lgReturn, lgSnapshots, lgStillVisible >>

\* "Welcome back" after continue: screenshot, then the longer chain is tried
\* whether or not the Google suggestion is shown
LgWelcomeBackAfter ==
  /\ LgRunning /\ lgPc = "welcomeBackAfter"
  /\ \E welcomeBackModalAfter, googleSuggestionAfter \in BOOLEAN,
        visible \in Visibles(emailInsteadSelectorsAfter) :
       LET seen == IF googleSuggestionAfter
                   THEN << "see:welcomeBackAfter", "see:google" >>
                   ELSE << "see:welcomeBackAfter" >>
       IN
       IF ~welcomeBackModalAfter
       THEN /\ lgPc' = "password"
            /\ UNCHANGED << lgReturn, lgTrace, lgSnapshots >>
       ELSE IF FirstVisible(emailInsteadSelectorsAfter, visible) # 0
       THEN /\ LgDid(seen \o << "click:emailInstead" >>)
            /\ LgSnapshot("welcome_back_modal")
            /\ lgPc' = "password"
            /\ UNCHANGED lgReturn
       ELSE /\ LgDid(seen)
            /\ lgSnapshots' = lgSnapshots \o
                 << << "welcome_back_modal", lgPc >>,
                    << "welcome_back_debug", lgPc >> >>
            /\ LgReturn("false")
  /\ UNCHANGED << otherVars, typed, lgStillVisible >>

\* the password chain; no visible element: return false
LgPassword ==
  /\ LgRunning /\ lgPc = "password"
  /\ \E visible \in Visibles(passwordSelectors) :
       IF FirstVisible(passwordSelectors, visible) # 0
       THEN lgPc' = "fillPassword" /\ UNCHANGED lgReturn
       ELSE LgReturn("false")
  /\ UNCHANGED << otherVars, typed, lgTrace, lgSnapshots, lgStillVisible >>

\* click, clear and fill the password input
LgFillPassword ==
  /\ LgRunning /\ lgPc = "fillPassword"
  /\ LgDid(<< "fill:password" >>)
  /\ typed' = typed \cup {password}
  /\ lgPc' = "loginButton"
  /\ UNCHANGED << otherVars, lgReturn, lgSnapshots, lgStillVisible >>

\* the login button chain; no visible element: return false
LgLoginButton ==
  /\ LgRunning /\ lgPc = "loginButton"
  /\ \E visible \in Visibles(loginButtonSelectors) :
       IF FirstVisible(loginButtonSelectors, visible) # 0
       THEN lgPc' = "submit" /\ UNCHANGED lgReturn
       ELSE LgReturn("false")
  /\ UNCHANGED << otherVars, typed, lgTrace, lgSnapshots, lgStillVisible >>

\* loginButton.click(); waitForTimeout(5000); screenshot; the page then shows
\* some of the password controls, or none
LgSubmit ==
  /\ LgRunning /\ lgPc = "submit"
  /\ LgDid(<< "click:login" >>)
  /\ lgStillVisible' \in Visibles(passwordSelectors)
  /\ lgSnapshots' = Append(lgSnapshots, << "after_login", "verify" >>)
  /\ lgPc' = "verify"
  /\ UNCHANGED << otherVars, typed, lgReturn >>

\* stillOnLogin = page.locator('input[type="password"]').isVisible()
LgVerify ==
  /\ LgRunning /\ lgPc = "verify"
  /\ LET stillOnLogin == passwordSelectors[1] \in lgStillVisible
     IN  IF stillOnLogin THEN LgReturn("false") ELSE LgReturn("true")
  /\ UNCHANGED << otherVars, typed, lgTrace, lgSnapshots, lgStillVisible >>

\* an awaited page call outside the probe loops rejects (the page is gone):
\* handleRedfinLogin rejects
LgThrow ==
  /\ LgRunning
  /\ lgPc \in {"fillEmail", "fillPassword", "submit"}
  /\ LgReturn("thrown")
  /\ UNCHANGED << otherVars, typed, lgTrace, lgSnapshots, lgStillVisible >>

InitLogin ==
  /\ sizeRanges = <<>>
  /\ priceRanges = <<>>
  /\ PipelineIdle
  /\ SimpleIdle
  /\ LoginIdle
  /\ processEnv \in Envs
  /\ CsvIdle
  /\ StatsIdle
  /\ ProbeIdle

NextLogin ==
  \/ LgStart
  \/ LgUnlock
  \/ LgWelcomeBack
  \/ LgEmail
  \/ LgFillEmail
  \/ LgContinueEmail
  \/ LgWelcomeBackAfter
  \/ LgPassword
  \/ LgFillPassword
  \/ LgLoginButton
  \/ LgSubmit
  \/ LgVerify
  \/ LgThrow

SpecLogin == InitLogin /\ [][NextLogin]_vars

\* ------------------------------------------------------------ CSV processing
\* a column the record does not have reads as undefined, modelled as the
\* empty text
Column(record, name) ==
  IF name \in DOMAIN record THEN record[name] ELSE <<>>

\* a || b for texts: b when a is undefined or empty
OrText(a, b) == IF a = <<>> THEN b ELSE a

SqftPerAcre == 43560

\* the upper ends of the size categories, in acres, and their labels
Breakpoints ==
  << [upTo |-> Rat(1, 4), label |-> "0-0.25"],
     [upTo |-> Rat(1, 2), label |-> "0.25-0.5"],
     [upTo |-> Whole(1), label |-> "0.5-1"],
     [upTo |-> Whole(3), label |-> "1-3"],
     [upTo |-> Whole(5), label |-> "3-5"] >>

\* if (acres <= 0.25) return '0-0.25'; ... return '5+'
RECURSIVE categorizeFrom(_, _)
categorizeFrom(acres, i) ==
  IF i > Len(Breakpoints) THEN "5+"
  ELSE IF Leq(acres, Breakpoints[i].upTo) THEN Breakpoints[i].label
       ELSE categorizeFrom(acres, i + 1)

\* variant: a breakpoint belongs to the band above it (acres < 0.25, ...)
categorizeLotSize_OpenAbove(acres) ==
  LET above == { i \in DOMAIN Breakpoints : Less(acres, Breakpoints[i].upTo) }
  IN  IF above = {} THEN "5+"
      ELSE Breakpoints[CHOOSE i \in above : \A j \in above : i <= j].label

categorizeLotSize(acres) == categorizeFrom(acres, 1)

\* processRecord: <<>> for null, else the one processed record; address and
\* saleDate are copied texts and left out
processRecord(record) ==
  LET price == parseFloat(OrText(OrText(Column(record, "PRICE"),
                 Column(record, "Sale Price")), << "0" >>))
      lotSizeSqft == parseFloat(OrText(OrText(Column(record, "LOT SIZE"),
                       Column(record, "Lot Size")), << "0" >>))
      zipCode == OrText(Column(record, "ZIP OR POSTAL CODE"),
                        Column(record, "Zip Code"))
      acres == Over(lotSizeSqft, Whole(SqftPerAcre))
      pricePerAcre == Over(price, acres)
  IN  IF Falsy(price) \/ Falsy(lotSizeSqft) \/ zipCode = <<>>
      THEN <<>>
      ELSE << [zipCode |-> zipCode,
               price |-> price,
               lotSizeSqft |-> lotSizeSqft,
               acres |-> parseFloat(toFixed(acres, 4)),
               pricePerAcre |-> parseFloat(toFixed(pricePerAcre, 2)),
               sizeCategory |-> categorizeLotSize(acres),
               originalRecord |-> record] >>

\* element i of a JavaScript array (indices from 0)
At(array, i) == array[i + 1]

\* variant: the upper of the two middle values of a list of even length
calculateMedian_UpperMiddle(sortedArray) ==
  At(sortedArray, Len(sortedArray) \div 2)

\* mid = Math.floor(length / 2); odd length: [mid], else ([mid-1] + [mid]) / 2
calculateMedian(sortedArray) ==
  LET mid == Len(sortedArray) \div 2
  IN  IF Len(sortedArray) % 2 # 0
      THEN At(sortedArray, mid)
      ELSE Over(Plus(At(sortedArray, mid - 1), At(sortedArray, mid)),
                Whole(2))

\* variant: the element nearest below the index, without interpolation
calculatePercentile_Lower(sortedArray, percentile) ==
  At(sortedArray,
     Floor(Times(Rat(percentile, 100), Whole(Len(sortedArray) - 1))))

\* index = (percentile / 100) * (length - 1); interpolation between the
\* elements at floor(index) and ceil(index)
calculatePercentile(sortedArray, percentile) ==
  LET index == Times(Over(Whole(percentile), Whole(100)),
                     Whole(Len(sortedArray) - 1))
      lower == Floor(index)
      upper == Ceil(index)
  IN  IF lower = upper
      THEN At(sortedArray, lower)
      ELSE Plus(At(sortedArray, lower),
                Times(Minus(At(sortedArray, upper), At(sortedArray, lower)),
                      Minus(index, Whole(lower))))

\* Array.prototype.sort((a, b) => a - b): ascending numeric order
RECURSIVE Insert(_, _)
Insert(sorted, x) ==
  IF sorted = <<>> THEN << x >>
  ELSE IF Less(x, Head(sorted)) THEN << x >> \o sorted
       ELSE << Head(sorted) >> \o Insert(Tail(sorted), x)

RECURSIVE SortAscending(_)
SortAscending(array) ==
  IF array = <<>> THEN <<>>
  ELSE Insert(SortAscending(SubSeq(array, 1, Len(array) - 1)),
              array[Len(array)])

RECURSIVE Sum(_)
Sum(array) ==
  IF array = <<>> THEN Whole(0) ELSE Plus(Head(array), Sum(Tail(array)))

\* the pricePerAcre values of the records of one ZIP and size category, in
\* the order of the records (the first loop of generateMarketMatrix)
RECURSIVE Grouped(_, _, _)
Grouped(recs, zipCode, sizeCategory) ==
  IF recs = <<>> THEN <<>>
  ELSE (IF Head(recs).zipCode = zipCode
           /\ Head(recs).sizeCategory = sizeCategory
        THEN << Head(recs).pricePerAcre >> ELSE <<>>)
       \o Grouped(Tail(recs), zipCode, sizeCategory)

Range(f) == { f[x] : x \in DOMAIN f }

\* variant: the statistics are taken from the bucket as it was filled,
\* without sorting it
Statistics_Unsorted(bucket) ==
  LET prices == bucket
      count == Len(prices)
  IN  [count |-> count,
       median |-> calculateMedian(prices),
       mean |-> parseFloat(toFixed(Over(Sum(prices), Whole(count)), 2)),
       min |-> At(prices, 0),
       max |-> At(prices, count - 1),
       q1 |-> calculatePercentile(prices, 25),
       q3 |-> calculatePercentile(prices, 75)]

\* variant: the mean is the total of the bucket, not divided by the count
Statistics_TotalAsMean(bucket) ==
  LET prices == SortAscending(bucket)
      count == Len(prices)
  IN  [count |-> count,
       median |-> calculateMedian(prices),
       mean |-> parseFloat(toFixed(Sum(prices), 2)),
       min |-> At(prices, 0),
       max |-> At(prices, count - 1),
       q1 |-> calculatePercentile(prices, 25),
       q3 |-> calculatePercentile(prices, 75)]

\* the statistics of one non-empty bucket (the second loop)
Statistics(bucket) ==
  LET prices == SortAscending(bucket)
      count == Len(prices)
  IN  [count |-> count,
       median |-> calculateMedian(prices),
       mean |-> parseFloat(toFixed(Over(Sum(prices), Whole(count)), 2)),
       min |-> At(prices, 0),
       max |-> At(prices, count - 1),
       q1 |-> calculatePercentile(prices, 25),
       q3 |-> calculatePercentile(prices, 75)]

\* generateMarketMatrix(records): ZIP -> size category -> statistics
generateMarketMatrix(recs) ==
  LET zips == { r.zipCode : r \in Range(recs) }
      cats(z) ==
        { r.sizeCategory : r \in { q \in Range(recs) : q.zipCode = z } }
  IN  [z \in zips |-> [c \in cats(z) |-> Statistics(Grouped(recs, z, c))]]

\* ------------------------------------------------- CSV processing: the run
\* rows of a downloaded file as (price, lot size in square feet, ZIP) texts:
\* sales of one acre, of a quarter acre and of one square foot more, rows
\* with a missing, zero, unreadable or negative price, a negative lot size, a
\* missing ZIP, and a sale in another ZIP
SampleRows ==
  {
    << << "1", "0", "0" >>, << "4", "3", "5", "6", "0" >>, << "1", "2", "3", "4", "5" >> >>,
    << << "2", "0", "0" >>, << "4", "3", "5", "6", "0" >>, << "1", "2", "3", "4", "5" >> >>,
    << << "3", "0", "0" >>, << "4", "3", "5", "6", "0" >>, << "1", "2", "3", "4", "5" >> >>,
    << << "1", "0", "0" >>, << "1", "0", "8", "9", "0" >>, << "1", "2", "3", "4", "5" >> >>,
    << << "1", "0", "0" >>, << "1", "0", "8", "9", "1" >>, << "1", "2", "3", "4", "5" >> >>,
    << <<>>, << "4", "3", "5", "6", "0" >>, << "1", "2", "3", "4", "5" >> >>,
    << << "0" >>, << "4", "3", "5", "6", "0" >>, << "1", "2", "3", "4", "5" >> >>,
    << << "N", "/", "A" >>, << "4", "3", "5", "6", "0" >>, << "1", "2", "3", "4", "5" >> >>,
    << << "-", "1", "0", "0" >>, << "4", "3", "5", "6", "0" >>, << "1", "2", "3", "4", "5" >> >>,
    << << "1", "0", "0" >>, << "-", "4", "3", "5", "6", "0" >>, << "1", "2", "3", "4", "5" >> >>,
    << << "1", "0", "0" >>, << "4", "3", "5", "6", "0" >>, <<>> >>,
    << << "1", "0", "0" >>, << "4", "3", "5", "6", "0" >>, << "6", "7", "8", "9", "0" >> >> }

\* a sale of 10000 square feet for 100000 in ZIP 32541
ExampleRow ==
  << << "1", "0", "0", "0", "0", "0" >>, << "1", "0", "0", "0", "0" >>,
     << "3", "2", "5", "4", "1" >> >>

\* the column names of a Redfin export and the alternative names
Headers ==
  { << "PRICE", "LOT SIZE", "ZIP OR POSTAL CODE" >>,
    << "Sale Price", "Lot Size", "Zip Code" >> }

\* a file that has the column PRICE and the column Sale Price as well; its
\* rows are taken from AliasRows and carry SecondPrice in the second column
BothPricesHeader ==
  << "PRICE", "LOT SIZE", "ZIP OR POSTAL CODE", "Sale Price" >>

SecondPrice == << "5", "0", "0" >>

AliasRows ==
  { row \in SampleRows :
      /\ row[1] \in { <<>>, << "0" >>, << "1", "0", "0" >> }
      /\ row[2] = << "4", "3", "5", "6", "0" >>
      /\ row[3] = << "1", "2", "3", "4", "5" >> }

\* csv-parse with columns: true: one object per row, keyed by the header
RawRecord(header, row) ==
  [name \in { header[i] : i \in DOMAIN header } |->
     row[CHOOSE i \in DOMAIN header : header[i] = name]]

CsvFiles ==
  { [i \in 1..Len(rows) |-> RawRecord(header, rows[i])] :
      header \in Headers,
      rows \in UNION { [1..k -> SampleRows] : k \in 0..MaxRows } }
  \cup
  { [i \in 1..Len(rows) |->
       RawRecord(BothPricesHeader, rows[i] \o << SecondPrice >>)] :
      rows \in UNION { [1..k -> AliasRows] : k \in 1..MaxRows } }
  \cup
  { << RawRecord(header, ExampleRow) >> : header \in Headers }

\* inputs of the functions applied on their own
AcreSamples ==
  { Rat(-1, 1), Whole(0), Rat(1, 8),
    Rat(1, 4), Rat(2500001, 10000000), Rat(1, 2), Rat(5000001, 10000000),
    Whole(1), Rat(1000001, 1000000), Whole(3), Rat(3000001, 1000000),
    Whole(5), Rat(5000001, 1000000), Whole(100) }

Values == { Whole(10), Whole(20), Whole(30), Whole(40), Whole(100),
            Whole(200), Whole(300) }

Percentiles == {0, 25, 50, 75, 100}

IsAscending(array) ==
  \A i \in 1..(Len(array) - 1) : Leq(array[i], array[i + 1])

SortedArrays ==
  { array \in UNION { [1..k -> Values] : k \in 1..MaxLen } :
      IsAscending(array) }

scriptVars == << pipelineVars, simpleVars, loginVars,
                probeChain, probeOutcome, probeResult >>
statsVars == << acresIn, arrayIn, percentileIn, sizeCategoryOut, medianOut,
               percentileOut >>

\* parser.on('readable'): the loop reads the records that are available,
\* count of them, and keeps what processRecord returns for each
RECURSIVE ProcessAll(_)
ProcessAll(raw) ==
  IF raw = <<>> THEN <<>>
  ELSE processRecord(Head(raw)) \o ProcessAll(Tail(raw))

ParserReadable ==
  /\ csvPc = "parsing"
  /\ \E count \in 1..(Len(csvFile) - unread + 1) :
       /\ records' = records \o
            ProcessAll(SubSeq(csvFile, unread, unread + count - 1))
       /\ unread' = unread + count
  /\ UNCHANGED << scriptVars, statsVars, csvPc, csvFile, marketMatrix >>

\* parser.on('end'): resolve(records)
ParserEnd ==
  /\ csvPc = "parsing"
  /\ unread > Len(csvFile)
  /\ csvPc' = "parsed"
  /\ UNCHANGED << scriptVars, statsVars, csvFile, unread, records,
                  marketMatrix >>

\* parser.on('error'): reject(err); processAllCsvFiles logs the error and
\* takes no record of the file
ParserError ==
  /\ csvPc = "parsing"
  /\ unread <= Len(csvFile)
  /\ records' = <<>>
  /\ csvPc' = "parsed"
  /\ UNCHANGED << scriptVars, statsVars, csvFile, unread, marketMatrix >>

\* main: marketMatrix = generateMarketMatrix(records)
GenerateMarketMatrix ==
  /\ csvPc = "parsed"
  /\ marketMatrix' = generateMarketMatrix(records)
  /\ csvPc' = "done"
  /\ UNCHANGED << scriptVars, statsVars, csvFile, unread, records >>

InitCsv ==
  /\ sizeRanges = <<>>
  /\ priceRanges = <<>>
  /\ PipelineIdle
  /\ SimpleIdle
  /\ LoginIdle
  /\ EnvSet
  /\ StatsIdle
  /\ ProbeIdle
  /\ csvPc = "parsing"
  /\ csvFile \in CsvFiles
  /\ unread = 1
  /\ records = <<>>
  /\ marketMatrix = <<>>

NextCsv ==
  \/ ParserReadable
  \/ ParserEnd
  \/ ParserError
  \/ GenerateMarketMatrix

SpecCsv == InitCsv /\ [][NextCsv]_vars

\* ------------------------------------------- the functions on their own
csvRunVars == << csvPc, csvFile, unread, records, marketMatrix >>

ApplyCategorizeLotSize ==
  /\ sizeCategoryOut = {}
  /\ sizeCategoryOut' = { categorizeLotSize(acresIn) }
  /\ UNCHANGED << scriptVars, csvRunVars, acresIn, arrayIn, percentileIn,
                  medianOut, percentileOut >>

ApplyCalculateMedian ==
  /\ medianOut = {}
  /\ medianOut' = { calculateMedian(arrayIn) }
  /\ UNCHANGED << scriptVars, csvRunVars, acresIn, arrayIn, percentileIn,
                  sizeCategoryOut, percentileOut >>

ApplyCalculatePercentile ==
  /\ percentileOut = {}
  /\ percentileOut' = { calculatePercentile(arrayIn, percentileIn) }
  /\ UNCHANGED << scriptVars, csvRunVars, acresIn, arrayIn, percentileIn,
                  sizeCategoryOut, medianOut >>

InitStats ==
  /\ sizeRanges = <<>>
  /\ priceRanges = <<>>
  /\ PipelineIdle
  /\ SimpleIdle
  /\ LoginIdle
  /\ EnvSet
  /\ CsvIdle
  /\ ProbeIdle
  /\ acresIn \in AcreSamples
  /\ arrayIn \in SortedArrays
  /\ percentileIn \in Percentiles
  /\ sizeCategoryOut = {}
  /\ medianOut = {}
  /\ percentileOut = {}

NextStats ==
  \/ ApplyCategorizeLotSize
  \/ ApplyCalculateMedian
  \/ ApplyCalculatePercentile

SpecStats == InitStats /\ [][NextStats]_vars

\* ------------------------------------------------- selector fallback chains
\* downloadSelectors of findDownloadButton
downloadSelectors ==
  << "button[data-rf-test-id=\"download-button\"]",
     "button:has-text(\"Download\")",
     "a:has-text(\"Download\")",
     "[data-rf-test-id=\"download-all\"]",
     "button:has-text(\"Export\")",
     ".download-button",
     "[aria-label*=\"download\" i]",
     "[title*=\"download\" i]" >>

\* the text locator findDownloadButton probes after its list
downloadText == "text=/download/i"

\* loginModalSelectors of the login detection
loginModalSelectors ==
  << "text=\"Unlock the full experience\"",
     "text=\"Welcome back\"",
     "text=\"You originally signed up with Google\"",
     "input[type=\"email\"]",
     "input[name=\"email\"]",
     "input[placeholder*=\"email\" i]",
     "button:has-text(\"Continue with email\")",
     "button:has-text(\"Continue with Google\")",
     "button:has-text(\"Continue with Apple\")" >>

\* what the probe of one candidate does: isVisible gives true or false, or
\* the probe raises
ProbeOutcomes == {"visible", "hidden", "raises"}

\* variant: a probe that raises ends the loop with nothing found
ProbeFrom_RaiseEnds(chain, outcome, i) ==
  LET raised == { j \in i..Len(chain) : outcome[j] = "raises" }
      shown == { j \in i..Len(chain) : outcome[j] = "visible" }
      first(set) == CHOOSE j \in set : \A k \in set : j <= k
  IN  IF shown # {} /\ (raised = {} \/ first(shown) < first(raised))
      THEN [used |-> first(shown),
            probed |-> [j \in 1..(first(shown) - i + 1) |-> i + j - 1]]
      ELSE [used |-> 0,
            probed |-> [j \in 1..(IF raised = {} THEN Len(chain) - i + 1
                                   ELSE first(raised) - i + 1) |-> i + j - 1]]

\* for (const selector of chain) { try { if (await element.isVisible())
\* { found = element; break } } catch { } } from candidate i on: the
\* position used (0: none) and the positions probed, in order
RECURSIVE ProbeFrom(_, _, _)
ProbeFrom(chain, outcome, i) ==
  IF i > Len(chain) THEN [used |-> 0, probed |-> <<>>]
  ELSE IF outcome[i] = "visible" THEN [used |-> i, probed |-> << i >>]
       ELSE LET rest == ProbeFrom(chain, outcome, i + 1)
            IN  [used |-> rest.used, probed |-> << i >> \o rest.probed]

\* findDownloadButton: the list, then the text locator as a last candidate
findDownloadButton(outcome) ==
  LET listed == ProbeFrom(downloadSelectors, outcome, 1)
      last == Len(downloadSelectors) + 1
  IN  IF listed.used # 0 THEN listed
      ELSE [used |-> IF outcome[last] = "visible" THEN last ELSE 0,
            probed |-> listed.probed \o << last >>]

\* the chains by the name of the element they look for
Chains ==
  [emailInput |-> emailSelectors,
   passwordInput |-> passwordSelectors,
   loginButton |-> loginButtonSelectors,
   loginModal |-> loginModalSelectors,
   downloadButton |-> downloadSelectors \o << downloadText >>]

probeVars == << probeChain, probeOutcome, probeResult >>

\* the loops of handleRedfinLogin for the email input, the password input
\* and the login button
ProbeLoginChain ==
  /\ probeChain \in {"emailInput", "passwordInput", "loginButton"}
  /\ probeResult = {}
  /\ probeResult' = { ProbeFrom(Chains[probeChain], probeOutcome, 1) }
  /\ UNCHANGED << pipelineVars, simpleVars, loginVars, csvRunVars, statsVars,
                  probeChain, probeOutcome >>

\* the login detection of downloadRedfinData after the click
ProbeLoginModal ==
  /\ probeChain = "loginModal"
  /\ probeResult = {}
  /\ probeResult' = { ProbeFrom(loginModalSelectors, probeOutcome, 1) }
  /\ UNCHANGED << pipelineVars, simpleVars, loginVars, csvRunVars, statsVars,
                  probeChain, probeOutcome >>

ProbeDownloadButton ==
  /\ probeChain = "downloadButton"
  /\ probeResult = {}
  /\ probeResult' = { findDownloadButton(probeOutcome) }
  /\ UNCHANGED << pipelineVars, simpleVars, loginVars, csvRunVars, statsVars,
                  probeChain, probeOutcome >>

InitProbe ==
  /\ sizeRanges = <<>>
  /\ priceRanges = <<>>
  /\ PipelineIdle
  /\ SimpleIdle
  /\ LoginIdle
  /\ EnvSet
  /\ CsvIdle
  /\ StatsIdle
  /\ probeChain \in DOMAIN Chains
  /\ probeOutcome \in [DOMAIN Chains[probeChain] -> ProbeOutcomes]
  /\ probeResult = {}

NextProbe ==
  \/ ProbeLoginChain
  \/ ProbeLoginModal
  \/ ProbeDownloadButton

SpecProbe == InitProbe /\ [][NextProbe]_vars

\* ================================================================== claims
\* ledger entries with status success for the key (location, size, price)
SuccessEntries(log, sizeLabel, priceLabel) ==
  { i \in DOMAIN log : /\ log[i].status = "success"
                       /\ log[i].county = county
                       /\ log[i].sizeRange = sizeLabel
                       /\ log[i].priceRange = priceLabel }

HasSuccess(log, sizeLabel, priceLabel) ==
  SuccessEntries(log, sizeLabel, priceLabel) # {}

InQuery == pc \notin {"idle", "done", "killed", "aborted", "crashed",
                      "forSize", "forPrice", "close"}

\* C1: a query whose key has a success entry in the ledger is skipped: its
\* navigation never starts (stated for every label, "5+" included)
C1_SuccessIsSkipped ==
  pc = "navigate" => ~HasSuccess(ledger, sizeRange.label, priceRange.label)

\* C2: a query is skipped only if the ledger holds a success entry with
\* exactly its location, size label and price label
C2_SkipOnlyOnSuccess ==
  pc = "skipped" => HasSuccess(ledger, sizeRange.label, priceRange.label)

\* C3: over the ledger's lifetime every key has at most one success entry
C3_AtMostOneSuccess ==
  \A i \in DOMAIN ledger :
    Cardinality(SuccessEntries(ledger, ledger[i].sizeRange,
                               ledger[i].priceRange)) <= 1

\* C4: no failure of a query step ends the batch: no exception leaves the
\* query loop and the process is not terminated by a query's failure
C4_BatchContinues == pc \notin {"aborted", "crashed"}

IsPrefix(a, b) == Len(a) <= Len(b) /\ SubSeq(b, 1, Len(a)) = a

\* C5: the ledger is append-only: a step leaves the file as it is or adds
\* exactly one complete line at its end, so earlier content stays a prefix
C5_AppendOnly ==
  [][ \/ ledger' = ledger
      \/ /\ Len(ledger') = Len(ledger) + 1
         /\ SubSeq(ledger', 1, Len(ledger)) = ledger
         /\ IsPrefix(FileText(ledger), FileText(ledger'))
         /\ FileText(ledger')[Len(FileText(ledger'))] = "\n" ]_vars

C5_Witness == run >= 2 /\ Len(ledger) >= 2

\* C6: a skip-check step leaves the ledger unchanged, and skip-checks of the
\* same query against the same ledger content give the same decision
C6_SkipCheckReadOnly ==
  [][ /\ pc = "check" => ledger' = ledger
      /\ \A a, b \in skipChecks' :
            a.key = b.key => a.decision = b.decision ]_vars

C6_Witness ==
  \E c \in skipChecks : c.again /\ c.decision /\ c.key[1] >= 1

\* position of a query in the partitioner's order
SizePos(label) == CHOOSE i \in DOMAIN sizeRanges : sizeRanges[i].label = label
PricePos(label) == CHOOSE i \in DOMAIN priceRanges : priceRanges[i].label = label

Before(a, b) ==
  \/ SizePos(a.size) < SizePos(b.size)
  \/ SizePos(a.size) = SizePos(b.size) /\ PricePos(a.price) < PricePos(b.price)

\* C7: only the query of the current iteration can be unconcluded, and the
\* queries are started in the partitioner's order
C7_OneQueryInFlight ==
  /\ \A i \in DOMAIN queries :
       queries[i].state = "inflight" => (i = Len(queries) /\ InQuery)
  /\ \A i \in DOMAIN queries :
       i < Len(queries) => Before(queries[i], queries[i + 1])

C7_Witness ==
  /\ pc = "navigate"
  /\ Len(queries) >= 3
  /\ queries[1].size # queries[3].size

\* C8: with a declared maxPrice every applicable price range is bounded and
\* its max does not exceed maxPrice
C8_WithinCap ==
  (pc = "forPrice" /\ sizeRange.maxPrice # 0) =>
     \A i \in DOMAIN applicablePriceRanges :
        /\ applicablePriceRanges[i].max # NullMax
        /\ applicablePriceRanges[i].max <= sizeRange.maxPrice

\* the queries the partitioner is to emit for the size ranges from..Len
RECURSIVE Partition(_)
Partition(from) ==
  IF from > Len(sizeRanges) THEN <<>>
  ELSE LET applicable == getPriceRangesForSize(sizeRanges[from], priceRanges)
       IN  [i \in DOMAIN applicable |->
              << sizeRanges[from].label, applicable[i].label >>]
           \o Partition(from + 1)

Emitted == [i \in DOMAIN queries |-> << queries[i].size, queries[i].price >>]

\* order-preserving sublist
IsSublist(a, b) ==
  \E f \in [DOMAIN a -> DOMAIN b] :
     /\ \A i \in DOMAIN a : a[i] = b[f[i]]
     /\ \A i, j \in DOMAIN a : i < j => f[i] < f[j]

\* C9: one query per (size range, applicable price range) pair, in order:
\* the full list without maxPrice, an order-preserving selection with it, and
\* a size range with nothing applicable does not stop the later ones
C9_OneQueryPerPair ==
  /\ IsPrefix(Emitted, Partition(1))
  /\ pc = "done" => Emitted = Partition(1)
  /\ pc = "forPrice" =>
       /\ sizeRange.maxPrice = 0 => applicablePriceRanges = priceRanges
       /\ IsSublist(applicablePriceRanges, priceRanges)

C9_Witness ==
  /\ pc = "done"
  /\ Len(sizeRanges) = 2
  /\ getPriceRangesForSize(sizeRanges[1], priceRanges) = <<>>
  /\ Len(queries) >= 1

\* rank of a capture strategy in the order native download, network
\* interception, authenticated direct replay
StrategyRank(m) ==
  CASE m = "traditional" -> 1
    [] m = "network_interception" -> 2
    [] OTHER -> 3

SdSuccesses == { i \in DOMAIN sdLog : sdLog[i].status = "success" }

\* C10: the strategies are tried in the order native, interception, replay,
\* nothing is tried after a success, and one success at most is logged
C10_OrderedShortCircuit ==
  /\ \A i, j \in DOMAIN strategies :
       i < j => StrategyRank(strategies[i]) <= StrategyRank(strategies[j])
  /\ Cardinality(SdSuccesses) <= 1
  /\ (downloadSuccess /\ Cardinality(SdSuccesses) = 1) =>
       sdPc \in {"final", "catch", "finally", "finallyRejected", "done",
                "rejected"}

SdOver == sdPc \in {"done", "rejected"}

\* C11: when the native download wait was awaited and had timed out and the
\* response handler has captured a non-empty body, the script ends with a
\* success entry of method network_interception
C11_CaptureFallback ==
  (/\ SdOver
   /\ \E k \in DOMAIN strategies : strategies[k] = "traditional"
   /\ downloadEvent = "timeout"
   /\ interceptedCsvData = "data") =>
     \E i \in SdSuccesses : sdLog[i].method = "network_interception"

\* C12: no strategy logs success for a capture of zero bytes (stated for the
\* native download: a success of method traditional is not a 0-byte file)
C12_NoEmptySuccess ==
  \A i \in SdSuccesses :
     sdLog[i].method = "traditional" => downloadEvent # "emptyfile"

\* C13: when every strategy tried has failed the log holds a failed entry,
\* and no exception leaves simpleDownload
C13_AllFailedIsLogged ==
  /\ sdPc # "rejected"
  /\ (sdPc = "done" /\ strategies # <<>> /\ ~downloadSuccess) =>
        \E i \in DOMAIN sdLog : sdLog[i].status = "failed"

\* C14: the login is invoked at most once, and the click on the export
\* control after a successful login has a download wait of its own
C14_LoginThenRetry ==
  /\ sdCalls.logins <= 1
  /\ (sdCalls.logins = 1 /\ sdCalls.clicks = 2) => sdCalls.waits = 2

\* position of a login stage in the order of the flow
LgRank(stage) ==
  CASE stage = "idle" -> 0
    [] stage = "unlock" -> 1
    [] stage = "welcomeBack" -> 2
    [] stage = "email" -> 3
    [] stage = "fillEmail" -> 4
    [] stage = "continueEmail" -> 5
    [] stage = "welcomeBackAfter" -> 6
    [] stage = "password" -> 7
    [] stage = "fillPassword" -> 8
    [] stage = "loginButton" -> 9
    [] stage = "submit" -> 10
    [] OTHER -> 11

LgDone(event) == \E i \in DOMAIN lgTrace : lgTrace[i] = event

\* C15: after submission the login returns true only if no control of the
\* password chain is visible, and false whenever one is still visible
C15_TerminalCriterion ==
  (lgPc = "verify" /\ lgReturn # "none") =>
     /\ lgReturn = "true" => lgStillVisible = {}
     /\ lgStillVisible # {} => lgReturn = "false"

\* C16: the login fails at an optional state only if that state's prompt was
\* seen, and a prompt that was seen is passed through (its control clicked)
\* before the flow is at a later stage
C16_OptionalSkippable ==
  /\ (lgReturn = "false" /\ lgPc = "unlock") => LgDone("see:unlock")
  /\ (lgReturn = "false" /\ lgPc = "welcomeBack") => LgDone("see:welcomeBack")
  /\ (lgReturn = "false" /\ lgPc = "welcomeBackAfter") =>
        LgDone("see:welcomeBackAfter")
  /\ \A i \in DOMAIN lgTrace :
       (lgTrace[i] = "see:unlock" /\ LgRank(lgPc) > LgRank("unlock")) =>
          (i < Len(lgTrace) /\ lgTrace[i + 1] = "click:continueEmail")
  /\ \A i \in DOMAIN lgTrace :
       (/\ lgTrace[i] = "see:welcomeBackAfter"
        /\ LgRank(lgPc) > LgRank("welcomeBackAfter")) =>
          \E k \in (i + 1)..Len(lgTrace) : lgTrace[k] = "click:emailInstead"

C16_Witness ==
  /\ lgReturn = "true"
  /\ ~LgDone("see:unlock")
  /\ ~LgDone("see:welcomeBack")
  /\ ~LgDone("see:welcomeBackAfter")
  /\ LgDone("fill:password")

\* C17: once the Google suggestion was seen the password is filled only after
\* "Sign in with email instead" was clicked, and a login that fails at a
\* welcome-back state has neither filled the password nor submitted
C17_ThirdPartyBranch ==
  /\ \A i, j \in DOMAIN lgTrace :
       (i < j /\ lgTrace[i] = "see:google" /\ lgTrace[j] = "fill:password") =>
          \E k \in (i + 1)..(j - 1) : lgTrace[k] = "click:emailInstead"
  /\ (lgReturn = "false" /\ lgPc \in {"welcomeBack", "welcomeBackAfter"}) =>
        (~LgDone("fill:password") /\ ~LgDone("click:login"))

C17_Witness ==
  /\ lgReturn = "true"
  /\ LgDone("see:google")
  /\ LgDone("click:emailInstead")

\* C18: a login that ends at a required state (email, password, login
\* button) ends by returning false, with a snapshot taken at that state, and
\* with no action of a later state performed
C18_StructuredFailure ==
  (lgReturn # "none" /\ lgPc \in {"email", "password", "loginButton"}) =>
     /\ lgReturn = "false"
     /\ \E i \in DOMAIN lgSnapshots : lgSnapshots[i][2] = lgPc
     /\ ~LgDone("click:login")
     /\ lgPc \in {"email", "password"} => ~LgDone("fill:password")

\* C19: a query is concluded with the error "Login failed" only after
\* handleRedfinLogin was invoked a second time for it
C19_LoginRetriedOnce ==
  (pc \in {"catch", "delayErr"} /\ thrown = LoginError) => loginCalls = 2

\* C20: at most maxAttempts navigation attempts per query; when they are
\* exhausted, one entry is appended for the query and the loop goes on with
\* the next price range (unless the process is killed from outside)
C20_NavigationBounded ==
  [][ /\ attempts' <= maxAttempts
      /\ (pc = "catch" /\ thrown = NavigationError /\ pc' # "killed") =>
            (Len(ledger') = Len(ledger) + 1 /\ pc' = "delayErr")
      /\ (pc = "delayErr" /\ thrown = NavigationError /\ pc' # "killed") =>
            (ledger' = ledger /\ pc' = "forPrice" /\ pIdx' = pIdx + 1)
    ]_vars

\* C21: within one query the pause before a navigation retry is strictly
\* longer than the pause before the previous retry
C21_IncreasingBackoff ==
  [][ (/\ pc = "navigate" /\ pc' = "navigate"
       /\ attempts' = attempts + 1
       /\ waited > 0) => waited' > waited ]_vars

\* a step that ends a query which went to the source and goes on to the next
\* price range
SourceQueryEnds ==
  pc \in {"count", "button", "delay", "delayErr"} /\ pc' = "forPrice"

\* C22: every query that contacted the source is followed by a pause before
\* the next query starts, and the pause after a query that raised an error is
\* longer than the pause after a logged success
C22_InterQueryDelay ==
  [][ SourceQueryEnds =>
        /\ waited' > 0
        /\ pc = "delayErr" => waited' > delayAfterSuccess ]_vars

\* the statuses of the ledger's vocabulary
LedgerStatuses == {"success", "failed", "no_results", "no_download_button"}

\* C23: every ledger entry has one of the four statuses
C23_StatusVocabulary ==
  \A i \in DOMAIN ledger : ledger[i].status \in LedgerStatuses

\* C24: a query for which checkResultCount gives 0 gets one ledger entry with
\* status no_results, no download is started for it (no wait for a download
\* event, no file), no counter of the summary changes, and the loop goes on
\* with the next price range
C24_NoResults ==
  [][ (/\ pc = "count"
       /\ resultCount' = 0
       /\ pc' \notin {"count", "killed", "crashed"}) =>
        /\ Len(ledger') = Len(ledger) + 1
        /\ IsPrefix(ledger, ledger')
        /\ ledger'[Len(ledger')].status = "no_results"
        /\ ledger'[Len(ledger')].sizeRange = sizeRange.label
        /\ ledger'[Len(ledger')].priceRange = priceRange.label
        /\ ledger'[Len(ledger')].filename = <<>>
        /\ UNCHANGED << counters, danglingDownloadPromise, filename >>
        /\ pc' = "forPrice"
        /\ pIdx' = pIdx + 1 ]_vars

C24_Witness ==
  /\ pc = "forPrice"
  /\ pIdx = 2
  /\ ledger # <<>>
  /\ ledger[Len(ledger)].status = "no_results"
  /\ queries # <<>>
  /\ queries[Len(queries)].state = "logged"
  /\ resultCount = 0
  /\ totalDownloads = 0
  /\ successfulDownloads = 0

\* C25: when RF_USER_EMAIL or RF_USER_PASSWORD is missing from the
\* environment no credential is typed into the source's login form, and a
\* value embedded in the code is never typed
C25_NoEmbeddedCredentials ==
  /\ (processEnv.RF_USER_EMAIL = "" \/ processEnv.RF_USER_PASSWORD = "") =>
        typed = {}
  /\ typed \cap {EmbeddedEmail, EmbeddedPassword} = {}

\* C26: every record kept by processRecord has a price above 0, a lot size
\* above 0 and a ZIP that is not empty
C26_ValidRecords ==
  \A i \in DOMAIN records :
     /\ Less(Whole(0), records[i].price)
     /\ Less(Whole(0), records[i].lotSizeSqft)
     /\ records[i].zipCode # <<>>

\* C27: categorizeLotSize gives each label exactly on its band of the
\* breakpoint table, a breakpoint belonging to the band it closes: 0.25 is
\* in "0-0.25" and 0.2500001 in "0.25-0.5"
C27_BreakpointTable ==
  \A label \in sizeCategoryOut :
     /\ label = "0-0.25" <=> Leq(acresIn, Rat(1, 4))
     /\ label = "0.25-0.5" <=>
          Less(Rat(1, 4), acresIn) /\ Leq(acresIn, Rat(1, 2))
     /\ label = "0.5-1" <=> Less(Rat(1, 2), acresIn) /\ Leq(acresIn, Whole(1))
     /\ label = "1-3" <=> Less(Whole(1), acresIn) /\ Leq(acresIn, Whole(3))
     /\ label = "3-5" <=> Less(Whole(3), acresIn) /\ Leq(acresIn, Whole(5))
     /\ label = "5+" <=> Less(Whole(5), acresIn)
     /\ acresIn = Rat(1, 4) => label = "0-0.25"
     /\ acresIn = Rat(2500001, 10000000) => label = "0.25-0.5"

C27_Witness ==
  /\ acresIn = Rat(2500001, 10000000)
  /\ sizeCategoryOut = {"0.25-0.5"}

\* the band of the breakpoint table an acreage lies in
TableCategory(acres) ==
  CHOOSE label \in {"0-0.25", "0.25-0.5", "0.5-1", "1-3", "3-5", "5+"} :
     /\ label = "0-0.25" <=> Leq(acres, Rat(1, 4))
     /\ label = "0.25-0.5" <=> Less(Rat(1, 4), acres) /\ Leq(acres, Rat(1, 2))
     /\ label = "0.5-1" <=> Less(Rat(1, 2), acres) /\ Leq(acres, Whole(1))
     /\ label = "1-3" <=> Less(Whole(1), acres) /\ Leq(acres, Whole(3))
     /\ label = "3-5" <=> Less(Whole(3), acres) /\ Leq(acres, Whole(5))
     /\ label = "5+" <=> Less(Whole(5), acres)

\* C28: the sizeCategory of a record is the table's category of the acres
\* stored in the record, so records with equal acres have equal categories
C28_CategoryOfStoredAcres ==
  /\ \A i \in DOMAIN records :
        records[i].sizeCategory = TableCategory(records[i].acres)
  /\ \A i, j \in DOMAIN records :
        records[i].acres = records[j].acres =>
           records[i].sizeCategory = records[j].sizeCategory

\* the pricePerAcre values of the records of a bucket, ascending
BucketPrices(zipCode, sizeCategory) ==
  SortAscending(Grouped(records, zipCode, sizeCategory))

\* the middle value of an ascending list of odd length, the average of the
\* two middle values of one of even length (positions counted from 1)
MiddleValue(list) ==
  IF Len(list) % 2 = 1
  THEN list[(Len(list) + 1) \div 2]
  ELSE Over(Plus(list[Len(list) \div 2], list[(Len(list) \div 2) + 1]),
            Whole(2))

\* C29: the median of every bucket of the market matrix is the middle value
\* of the bucket's pricePerAcre values; the median of 100, 200, 300 is 200
\* and the median of 100, 200 is 150
C29_BucketMedian ==
  csvPc = "done" =>
    \A zipCode \in DOMAIN marketMatrix :
       \A sizeCategory \in DOMAIN marketMatrix[zipCode] :
          LET prices == BucketPrices(zipCode, sizeCategory)
              median == marketMatrix[zipCode][sizeCategory].median
          IN  /\ prices # <<>>
              /\ marketMatrix[zipCode][sizeCategory].count = Len(prices)
              /\ median = MiddleValue(prices)
              /\ prices = << Whole(100), Whole(200), Whole(300) >> =>
                    median = Whole(200)
              /\ prices = << Whole(100), Whole(200) >> => median = Whole(150)

C29_Witness ==
  /\ csvPc = "done"
  /\ \E zipCode \in DOMAIN marketMatrix :
       \E sizeCategory \in DOMAIN marketMatrix[zipCode] :
          /\ BucketPrices(zipCode, sizeCategory) =
               << Whole(100), Whole(200) >>
          /\ marketMatrix[zipCode][sizeCategory].median = Whole(150)

\* the value at a position between two neighbours of a list (positions
\* counted from 0): the neighbours weighted by their distance to the position
Interpolated(list, position) ==
  LET below == Floor(position)
  IN  IF Whole(below) = position
      THEN list[below + 1]
      ELSE Plus(Times(list[below + 1], Minus(Whole(below + 1), position)),
                Times(list[below + 2], Minus(position, Whole(below))))

\* C30: calculatePercentile gives the linear interpolation at position
\* (p / 100) * (n - 1), the element itself at a whole position; for 10, 20,
\* 30, 40 the 25th percentile is 17.5 and the 75th is 32.5
C30_LinearInterpolation ==
  \A result \in percentileOut :
     /\ result =
          Interpolated(arrayIn, Rat(percentileIn * (Len(arrayIn) - 1), 100))
     /\ Len(arrayIn) = 1 => result = arrayIn[1]
     /\ arrayIn = << Whole(10), Whole(20), Whole(30), Whole(40) >> =>
          /\ percentileIn = 25 => result = Rat(35, 2)
          /\ percentileIn = 75 => result = Rat(65, 2)

C30_Witness ==
  /\ arrayIn = << Whole(10), Whole(20), Whole(30), Whole(40) >>
  /\ percentileIn = 25
  /\ percentileOut = { Rat(35, 2) }

\* |a - b| <= tolerance
Near(a, b, tolerance) ==
  Leq(Minus(a, b), tolerance) /\ Leq(Minus(b, a), tolerance)

\* the raw record of the row PRICE 100000, LOT SIZE 10000, ZIP 32541
IsExampleRow(record) ==
  /\ Column(record, "PRICE") = << "1", "0", "0", "0", "0", "0" >>
  /\ Column(record, "LOT SIZE") = << "1", "0", "0", "0", "0" >>
  /\ Column(record, "ZIP OR POSTAL CODE") = << "3", "2", "5", "4", "1" >>

\* C31: the row PRICE 100000, LOT SIZE 10000, ZIP 32541 gives a record with
\* acres 0.2296, pricePerAcre 435536.06 (each to the last decimal shown)
\* and sizeCategory "0-0.25"
C31_ExampleRow ==
  \A i \in DOMAIN records :
     IsExampleRow(records[i].originalRecord) =>
        /\ Near(records[i].acres, Rat(2296, 10000), Rat(1, 10000))
        /\ Near(records[i].pricePerAcre, Rat(43553606, 100), Rat(1, 100))
        /\ records[i].sizeCategory = "0-0.25"

\* the text of the first of the alias headers that the file has
FirstPresent(record, aliases) ==
  LET present == { i \in DOMAIN aliases : aliases[i] \in DOMAIN record }
  IN  IF present = {} THEN <<>>
      ELSE record[aliases[CHOOSE i \in present : \A j \in present : i <= j]]

\* C34: price, lot size and ZIP of a record are read from the first alias
\* header the file has, also when the text under that header is empty
C34_FirstPresentAlias ==
  \A i \in DOMAIN records :
     LET raw == records[i].originalRecord
     IN  /\ records[i].price =
              parseFloat(FirstPresent(raw, << "PRICE", "Sale Price" >>))
         /\ records[i].lotSizeSqft =
              parseFloat(FirstPresent(raw, << "LOT SIZE", "Lot Size" >>))
         /\ records[i].zipCode =
              FirstPresent(raw, << "ZIP OR POSTAL CODE", "Zip Code" >>)

\* the buckets of the market matrix as (ZIP, size category) pairs
Buckets ==
  { b \in (DOMAIN marketMatrix) \X
            {"0-0.25", "0.25-0.5", "0.5-1", "1-3", "3-5", "5+"} :
      b[2] \in DOMAIN marketMatrix[b[1]] }

BucketStats(b) == marketMatrix[b[1]][b[2]]

\* the records of a bucket
BucketRecords(b) ==
  { i \in DOMAIN records :
      records[i].zipCode = b[1] /\ records[i].sizeCategory = b[2] }

RECURSIVE TotalCount(_)
TotalCount(buckets) ==
  IF buckets = {} THEN 0
  ELSE LET b == CHOOSE x \in buckets : TRUE
       IN  BucketStats(b).count + TotalCount(buckets \ {b})

\* the orders the records can be handed over in
Orders(n) ==
  { f \in [1..n -> 1..n] : \A i, j \in 1..n : f[i] = f[j] => i = j }

\* C32: every record is in exactly one bucket: the counts add up to the
\* number of records, no bucket is empty, min and max of a bucket are the
\* smallest and the largest pricePerAcre of its records, and the matrix is
\* the same for every order of the records
C32_OneBucketPerRecord ==
  csvPc = "done" =>
    /\ TotalCount(Buckets) = Len(records)
    /\ \A i \in DOMAIN records :
          << records[i].zipCode, records[i].sizeCategory >> \in Buckets
    /\ \A b \in Buckets :
          /\ BucketStats(b).count >= 1
          /\ BucketStats(b).count = Cardinality(BucketRecords(b))
          /\ \A i \in BucketRecords(b) :
                /\ Leq(BucketStats(b).min, records[i].pricePerAcre)
                /\ Leq(records[i].pricePerAcre, BucketStats(b).max)
          /\ \E i \in BucketRecords(b) :
                records[i].pricePerAcre = BucketStats(b).min
          /\ \E i \in BucketRecords(b) :
                records[i].pricePerAcre = BucketStats(b).max
    /\ \A f \in Orders(Len(records)) :
          generateMarketMatrix([i \in 1..Len(records) |-> records[f[i]]]) =
            marketMatrix

C32_Witness ==
  /\ csvPc = "done"
  /\ Len(records) = 3
  /\ Cardinality(Buckets) = 2
  /\ \E b \in Buckets :
       /\ BucketStats(b).count = 2
       /\ Less(BucketStats(b).min, BucketStats(b).max)
       /\ \E i, j \in BucketRecords(b) :
            i < j /\ Less(records[j].pricePerAcre, records[i].pricePerAcre)

\* C40: in every bucket min <= q1 <= median <= q3 <= max and
\* min <= mean <= max, and in a bucket of one record each of them is the
\* record's pricePerAcre
C40_OrderedStatistics ==
  csvPc = "done" =>
    \A b \in Buckets :
       LET st == BucketStats(b)
       IN  /\ Leq(st.min, st.q1)
           /\ Leq(st.q1, st.median)
           /\ Leq(st.median, st.q3)
           /\ Leq(st.q3, st.max)
           /\ Leq(st.min, st.mean)
           /\ Leq(st.mean, st.max)
           /\ st.count = 1 =>
                \A i \in BucketRecords(b) :
                   \A value \in {st.min, st.q1, st.median, st.q3, st.max,
                                 st.mean} :
                      value = records[i].pricePerAcre

C40_Witness ==
  /\ csvPc = "done"
  /\ \E b \in Buckets :
       /\ BucketStats(b).count = 3
       /\ Less(BucketStats(b).min, BucketStats(b).q1)
       /\ Less(BucketStats(b).q1, BucketStats(b).median)
       /\ Less(BucketStats(b).median, BucketStats(b).q3)
       /\ Less(BucketStats(b).q3, BucketStats(b).max)

\* the candidates of the probed chain that are visible
VisibleCandidates ==
  { i \in DOMAIN probeOutcome : probeOutcome[i] = "visible" }

\* C33: a fallback chain uses the first visible candidate in list order:
\* the candidates up to the one used are probed, each once and in order, none
\* after it; a candidate whose probe raises counts as not visible; nothing
\* is found exactly when no candidate is visible, and then all were probed
C33_FirstVisibleInOrder ==
  \A result \in probeResult :
     /\ result.used = 0 <=> VisibleCandidates = {}
     /\ result.used # 0 =>
          /\ result.used \in VisibleCandidates
          /\ \A i \in VisibleCandidates : result.used <= i
          /\ result.probed = [i \in 1..result.used |-> i]
     /\ result.used = 0 =>
          result.probed = [i \in 1..Len(probeOutcome) |-> i]

C33_Witness ==
  /\ probeChain = "emailInput"
  /\ probeOutcome[1] = "raises"
  /\ probeOutcome[2] = "hidden"
  /\ probeOutcome[3] = "visible"
  /\ probeOutcome[5] = "visible"
  /\ probeResult = { [used |-> 3, probed |-> << 1, 2, 3 >>] }

\* the "Welcome back" prompt after the continue click came with the Google
\* suggestion
GoogleSeenAfter ==
  \E i \in DOMAIN lgTrace :
     /\ lgTrace[i] = "see:welcomeBackAfter"
     /\ i < Len(lgTrace)
     /\ lgTrace[i + 1] = "see:google"

\* C35: a login that met the "Welcome back" prompt after the continue click
\* without the Google suggestion does not end there: a missing "Sign in with
\* email instead" control does not make it return false
C35_EmailInsteadOptionalAfter ==
  (/\ lgPc = "welcomeBackAfter"
   /\ LgDone("see:welcomeBackAfter")
   /\ ~GoogleSeenAfter) => lgReturn # "false"

\* C36: every line appended to the ledger is the one entry of its query: the
\* query of the current iteration has no entry yet when the line is written
C36_OneEntryPerAttempt ==
  [][Len(ledger') > Len(ledger) =>
       /\ queries # <<>>
       /\ queries[Len(queries)].state = "inflight"]_vars

\* the page's count element was read and its number is zero
ReportsZero(element) ==
  /\ element.present
  /\ MatchDigits(element.text) # <<>>
  /\ DigitsValue(MatchDigits(element.text)) = 0

\* C37: a no_results entry is written only for a page whose count element
\* reported zero; an element that is absent or carries no number does not end
\* the query as no_results
C37_NoResultsOnlyWhenZero ==
  [][ (/\ Len(ledger') > Len(ledger)
       /\ ledger'[Len(ledger')].status = "no_results") =>
        ReportsZero(searchCount) ]_vars

\* C38: a success entry is appended only when the file of the query is already
\* in the raw-data directory under its final name, and the entry carries that
\* name
C38_SavedBeforeLogged ==
  [][ (/\ Len(ledger') > Len(ledger)
       /\ ledger'[Len(ledger')].status = "success") =>
        /\ targetSaved
        /\ filename # <<>>
        /\ ledger'[Len(ledger')].filename = filename ]_vars

C38_Witness ==
  /\ pc = "delay"
  /\ targetSaved
  /\ ledger # <<>>
  /\ ledger[Len(ledger)].status = "success"
  /\ ledger[Len(ledger)].filename = filename

\* C39: a run of downloadRedfinData that has launched the browser and ends
\* by its own code (completion or an error leaving the function, not a kill
\* of the process) ends through await browser.close()
C39_BrowserClosedOnEveryExit ==
  [][ (/\ Running
       /\ ~Running'
       /\ pc' \notin {"killed", "crashed"}) => pc = "close" ]_vars

====
